---------------------------- MODULE Spec2Model ----------------------------
(***************************************************************************)
(* Model of the Telegram product scraper (src/scraper.py): the Gemini      *)
(* extractor's key/model rotation, the per-channel message cache and       *)
(* pending-media buffer, product assembly and validation, the three JSON   *)
(* stores and the backend delivery.                                        *)
(*                                                                         *)
(* One execution of process_message is a handler h; it advances through    *)
(* the suspension points of the coroutine:                                 *)
(*   idle -> (ProcessMessage) -> extract -> (GeminiCall* / ExtractReturn)  *)
(*        -> assemble -> (Assemble) -> send -> (SendProduct) -> idle       *)
(* and, when products.json holds an AI-extracted record of the message,    *)
(*   idle -> (ProcessMessage) -> resend -> (SendProduct) -> idle           *)
(* In Spec the handlers run one after the other, as _process_batch awaits  *)
(* each process_message before it starts the next.                         *)
(***************************************************************************)
EXTENDS Integers, Sequences, FiniteSets, TLC

(***************************************************************************)
(* Bounds of the model.                                                    *)
(***************************************************************************)
NumChannels == 2
MaxMsgId == 2
NumKeys == 2
NumModels == 2
MaxCalls == 4
MaxRateLimitRetries == 1
MaxRuns == 2

Channels == 1..NumChannels
MsgIds == 1..MaxMsgId
\* process_message executions that can be under way at a time, and the
\* one that is used where each call is awaited before the next starts
Handlers == {"h1", "h2"}
Sequential == {"h1"}

(***************************************************************************)
(* Optional values (Python None) are sets with at most one element.        *)
(***************************************************************************)
None == {}
Some(v) == {v}

(***************************************************************************)
(* ExtractionMethod                                                        *)
(***************************************************************************)
GEMINI == "Gemini AI"
MANUAL == "Manual"

(***************************************************************************)
(* Messages.  The text of a message is one of a few representative texts   *)
(* and its media one of a few media descriptors; a message's content is    *)
(* fixed the first time the message is seen (world).                       *)
(*   text:  "none" (no text), "blank" (only white space),                  *)
(*          "full" (a name line and a price), "noprice" (a name, no number)*)
(*   media: "none", "photo", "doc" (a document whose mime type is not in   *)
(*          SUPPORTED_EXTENSIONS)                                          *)
(***************************************************************************)
MsgKinds ==
  { [text |-> "none",    media |-> "photo"],
    [text |-> "none",    media |-> "doc"],
    [text |-> "blank",   media |-> "photo"],
    [text |-> "full",    media |-> "none"],
    [text |-> "full",    media |-> "photo"],
    [text |-> "noprice", media |-> "photo"] }

\* The channels of the pipeline model post media first and the caption
\* after it: a message with an odd id has no text, one with an even id has.
KindsOf(c, m) ==
  IF m % 2 = 1
    THEN IF c % 2 = 1
           THEN {[text |-> "none", media |-> "photo"]}
           ELSE {[text |-> "none", media |-> "doc"],
                 [text |-> "blank", media |-> "photo"]}
    ELSE IF c % 2 = 1
           THEN {[text |-> "full", media |-> "none"]}
           ELSE {[text |-> "full", media |-> "photo"],
                 [text |-> "noprice", media |-> "photo"]}

Unseen == [text |-> "unseen", media |-> "unseen"]

\* message.text and message.text.strip()
HasText(k) == k.text \notin {"none", "blank"}

\* TelegramProductScraper._has_media
HasMedia(k) == k.media \in {"photo", "doc"}

\* MediaHandler._get_extension: None for an unsupported mime type
GetExtension(k) == IF k.media = "photo" THEN Some("jpg") ELSE None

(***************************************************************************)
(* unique_id = f"{chat_id}_{message.id}": the decimal digits of the two    *)
(* numbers with an underscore between them.                                *)
(***************************************************************************)
DigitChar(d) == <<"0", "1", "2", "3", "4", "5", "6", "7", "8", "9">>[d + 1]

RECURSIVE Digits(_)
Digits(n) == IF n < 10 THEN <<DigitChar(n)>>
             ELSE Digits(n \div 10) \o <<DigitChar(n % 10)>>

UniqueId(c, m) == Digits(c) \o <<"_">> \o Digits(m)

(***************************************************************************)
(* PriceExtractor.  A text is a sequence of tokens:                        *)
(*   num  a decimal literal, val its value as float() reads it             *)
(*   cur  a currency marker of PRICE_PATTERNS 1 and 5                      *)
(*   kw   the keyword of pattern 2, which _contextual_search looks for too *)
(*   by   a keyword of patterns 3 and 4                                    *)
(*   w    any other word                                                   *)
(*   nl   a line break                                                     *)
(*   sym  a character outside the allow-list (an emoji), which the         *)
(*        cleaning turns into a space                                      *)
(* Tokens other than nl and sym are separated by spaces; no literal has a  *)
(* comma between digits.                                                   *)
(***************************************************************************)
MaxTokens == 4

PriceValues == {0, 150, 200}

Num(v) == [kind |-> "num", val |-> v]
Tok(k) == [kind |-> k, val |-> 0]

Tokens ==
  {Num(v) : v \in PriceValues} \cup
  {Tok(k) : k \in {"cur", "kw", "by", "w", "nl", "sym"}}

Texts == UNION {[1..n -> Tokens] : n \in 0..MaxTokens}

MIN_PRICE == 1
MAX_PRICE == 100000

\* cls.MIN_PRICE <= price <= cls.MAX_PRICE
InRange(v) == MIN_PRICE <= v /\ v <= MAX_PRICE

SetMin(S) == CHOOSE x \in S : \A y \in S : x <= y
SetMax(S) == CHOOSE x \in S : \A y \in S : x >= y

\* the first token after position i that the regular expression does not
\* read as white space, 0 if there is none
NextAfter(text, i, blanks) ==
  LET later == {j \in (i + 1)..Len(text) : text[j].kind \notin blanks}
  IN  IF later = {} THEN 0 ELSE SetMin(later)

PatternMatchesFirstOnly(text, blanks) ==
  LET all == {j \in 1..Len(text) :
                /\ text[j].kind = "num"
                /\ InRange(text[j].val)
                /\ LET n == NextAfter(text, j, blanks)
                   IN  n > 0 /\ text[n].kind = "cur"}
  IN  IF all = {} THEN {} ELSE {text[SetMin(all)].val}

\* the in-range values PRICE_PATTERNS match in one text: a number followed
\* by a currency marker or preceded by a price keyword, white space only
\* in between
PatternMatches(text, blanks) ==
  LET BeforeCurrency(j) ==
        LET n == NextAfter(text, j, blanks)
        IN  n > 0 /\ text[n].kind = "cur"
      AfterKeyword(j) ==
        \E q \in 1..(j - 1) :
          /\ text[q].kind \in {"kw", "by"}
          /\ NextAfter(text, q, blanks) = j
  IN  {text[i].val : i \in
         {j \in 1..Len(text) :
            /\ text[j].kind = "num"
            /\ InRange(text[j].val)
            /\ (BeforeCurrency(j) \/ AfterKeyword(j))}}

\* _find_all_prices(text_normalized, clean_text): in text_normalized a
\* sym is a character, in clean_text it is a space
FindAllPrices(text) ==
  PatternMatches(text, {"nl"}) \cup PatternMatches(text, {"nl", "sym"})

\* _contextual_search: the first number after the first keyword that has
\* a number later on its line, if it is in range
ContextualSearch(text) ==
  LET NumberAfter(q) ==
        {j \in (q + 1)..Len(text) :
           /\ text[j].kind = "num"
           /\ \A x \in (q + 1)..(j - 1) : text[x].kind # "nl"}
      starts == {q \in 1..Len(text) :
                   text[q].kind = "kw" /\ NumberAfter(q) # {}}
  IN  IF starts = {} THEN None
      ELSE LET price == text[SetMin(NumberAfter(SetMin(starts)))].val
           IN  IF InRange(price) THEN Some(price) ELSE None

\* _first_valid_number
FirstValidNumber(text) ==
  LET valid == {j \in 1..Len(text) :
                  text[j].kind = "num" /\ InRange(text[j].val)}
  IN  IF valid = {} THEN None ELSE Some(text[SetMin(valid)].val)

\* PriceExtractor.extract
PriceExtract(text) ==
  LET all_prices == FindAllPrices(text)
      price == ContextualSearch(text)
  IN  IF all_prices # {}
        THEN [current_price |-> Some(SetMin(all_prices)),
              old_price |-> IF Cardinality(all_prices) > 1
                              THEN Some(SetMax(all_prices)) ELSE None]
      ELSE IF price # None
        THEN [current_price |-> price, old_price |-> None]
      ELSE [current_price |-> FirstValidNumber(text), old_price |-> None]

(***************************************************************************)
(* TextExtractor.  It reads the same token sequences; mk is an occurrence  *)
(* of the product-name marker between word boundaries, which _clean_name   *)
(* removes.  A line is the tokens between two line breaks; a line without  *)
(* a token is blank.                                                       *)
(***************************************************************************)
MaxTextLen == 7

TextAlphabet == {Tok("w"), Tok("mk"), Tok("nl"), Num(150), Tok("cur")}

TextInputs == UNION {[1..n -> TextAlphabet] : n \in 0..MaxTextLen}

RECURSIVE NonBlankLinesKeepsBlank(_)
NonBlankLinesKeepsBlank(text) ==
  IF text = <<>> THEN <<>>
  ELSE LET breaks == {i \in 1..Len(text) : text[i].kind = "nl"}
           first == IF breaks = {} THEN Len(text) + 1 ELSE SetMin(breaks)
           line == SubSeq(text, 1, first - 1)
           rest == SubSeq(text, first + 1, Len(text))
       IN  <<line>> \o NonBlankLinesKeepsBlank(rest)

\* [line.strip() for line in text.splitlines() if line.strip()]
RECURSIVE NonBlankLines(_)
NonBlankLines(text) ==
  IF text = <<>> THEN <<>>
  ELSE LET breaks == {i \in 1..Len(text) : text[i].kind = "nl"}
           first == IF breaks = {} THEN Len(text) + 1 ELSE SetMin(breaks)
           line == SubSeq(text, 1, first - 1)
           rest == SubSeq(text, first + 1, Len(text))
       IN  (IF line = <<>> THEN <<>> ELSE <<line>>) \o NonBlankLines(rest)

\* '\n'.join(lines)
RECURSIVE JoinLines(_)
JoinLines(lines) ==
  IF lines = <<>> THEN <<>>
  ELSE IF Len(lines) = 1 THEN lines[1]
  ELSE lines[1] \o <<Tok("nl")>> \o JoinLines(Tail(lines))

\* TextExtractor._clean_name
CleanName(name) == SelectSeq(name, LAMBDA t : t.kind # "mk")

TextExtractNameOnly(text) ==
  LET lines == NonBlankLines(text)
  IN  [name |-> IF lines = <<>> THEN <<>> ELSE CleanName(lines[1]),
       short_description |-> <<>>,
       description |-> <<>>]

\* TextExtractor.extract
TextExtract(text) ==
  LET lines == NonBlankLines(text)
  IN  IF lines = <<>>
        THEN [name |-> <<>>, short_description |-> <<>>,
              description |-> <<>>]
      ELSE IF Len(lines) = 1
        THEN [name |-> CleanName(lines[1]), short_description |-> <<>>,
              description |-> <<>>]
      ELSE IF Len(lines) = 2
        THEN [name |-> CleanName(lines[1]), short_description |-> lines[2],
              description |-> <<>>]
      ELSE [name |-> CleanName(lines[1]), short_description |-> lines[2],
            description |-> JoinLines(SubSeq(lines, 3, Len(lines)))]

(***************************************************************************)
(* Rule-based extraction of the representative texts of the pipeline       *)
(* (TextExtractor.extract, PriceExtractor.extract): "full" is a name line  *)
(* and a price line, "noprice" a name line.                                *)
(***************************************************************************)
TextTokens(text) ==
  IF text = "full"
    THEN <<Tok("w"), Tok("nl"), Num(150), Tok("cur")>>
    ELSE <<Tok("w")>>

ManualExtract(text) ==
  [name |-> "name",
   current_price |-> PriceExtract(TextTokens(text)).current_price,
   old_price |-> PriceExtract(TextTokens(text)).old_price]

(***************************************************************************)
(* What the AI service can answer to one call.                             *)
(***************************************************************************)
\* The dict _parse_response returns is a function from its keys; the JSON
\* object {} is the function with no key.
GoodResult ==
  [name |-> "ai", current_price |-> Some(150), old_price |-> Some(200)]

EmptyDict == [key \in {} |-> ""]

AIResults ==
  { GoodResult,
    EmptyDict,
    [name |-> "",   current_price |-> Some(150), old_price |-> None],
    [name |-> "ai", current_price |-> Some(200), old_price |-> Some(150)],
    [name |-> "ai", current_price |-> None,      old_price |-> None],
    [name |-> "ai", current_price |-> Some(0),   old_price |-> None] }

NoResult == [name |-> "", current_price |-> None, old_price |-> None]

\* "rate_limit": quota error with "retry in Ns", N > 0; "rate_limit_zero":
\* the same with N = 0; "daily": per-day quota; "unavailable": 503;
\* "other": any other error; "max_tokens": finishReason MAX_TOKENS;
\* "malformed": a response without a JSON object; "not_found": an error
\* that is not about quota or availability and whose text has one of the
\* substrings tested at line 591 (HTTP 404 "... is not supported for
\* generateContent" has "rate")
ErrorReplies == {"rate_limit", "rate_limit_zero", "daily", "unavailable",
                 "other", "max_tokens", "malformed", "not_found"}

Replies ==
  {[kind |-> "ok", result |-> r] : r \in AIResults} \cup
  {[kind |-> e, result |-> NoResult] : e \in ErrorReplies}

VARIABLES
  gemini,      \* GeminiExtractor: rotation state
  processed,   \* TelegramProductScraper.processed_messages
  pending,     \* pending_media: channel -> sequence of message ids
  cache,       \* message_cache: channel -> set of cached message ids
  products,    \* products.json
  offline,     \* offline_products.json
  failed,      \* failed_products.json
  backendOn,   \* BackendClient.enabled
  task,        \* handler -> the locals of its process_message execution
  world,       \* <<channel, id>> -> content of the message
  run,         \* number of the current run
  nCalls,      \* process_message calls so far
  delivered,   \* unique_ids submitted to the backend in this run
  attached,    \* <<channel, id>> of the messages with an image in a
               \* product assembled in this run
  lost,        \* <<channel, id>> of the messages handed to
               \* _add_media_to_product in this run whose download
               \* returned None
  quotaRun,    \* calls and rotations while every answer was quota-exhausted
  leftPairs,   \* (key, model) pairs left because of quota exhaustion
  hist,        \* scrape_channel_history: BATCH_SIZE, the messages still to
               \* iterate, messages_batch and the batch being processed
  stopped,     \* the run was cancelled
  priceIn,     \* the text handed to PriceExtractor.extract
  priceOut,    \* the ProductPrice it returned
  textIn,      \* the text handed to the rule-based extractors
  textOut,     \* what TextExtractor.extract returned, call after call
  look,        \* collect_previous_media: its arguments, the position of
               \* its walk, media_list and the list it returned
  hybrid       \* _run_hybrid_mode: the channels still to replay, the
               \* number of messages posted in each channel, and whether
               \* the handler of events.NewMessage is registered

vars == <<gemini, processed, pending, cache, products, offline, failed,
          backendOn, task, world, run, nCalls, delivered, attached, lost,
          quotaRun, leftPairs, hist, stopped, priceIn, priceOut,
          textIn, textOut, look, hybrid>>

\* the state of the history replay, of the cancellation and of the price
\* extractor on its own
modes == <<hist, stopped, priceIn, priceOut, textIn, textOut, look, hybrid>>

stores == <<products, offline, failed>>
ghosts == <<delivered, attached, lost, quotaRun, leftPairs>>


(***************************************************************************)
(* GeminiExtractor: rotation over api keys and models.  Indices are        *)
(* 0-based as in the source.                                               *)
(***************************************************************************)
GeminiInit ==
  [current_key_index |-> 0, current_model_index |-> 0,
   exhausted_models |-> {}, exhausted_keys |-> {}, enabled |-> TRUE]

\* while index in exhausted: index = (index + 1) % n
RECURSIVE SkipExhausted(_, _, _)
SkipExhausted(index, exhausted, n) ==
  IF index \in exhausted
    THEN SkipExhausted((index + 1) % n, exhausted, n)
    ELSE index

\* while next_index in exhausted and len(exhausted) < n: next_index = ...
RECURSIVE NextAvailable(_, _, _)
NextAvailable(next_index, exhausted, n) ==
  IF next_index \in exhausted /\ Cardinality(exhausted) < n
    THEN NextAvailable((next_index + 1) % n, exhausted, n)
    ELSE next_index

GetCurrentApiKey(g) ==
  IF ~g.enabled \/ NumKeys = 0
    THEN [g |-> g, val |-> None]
  ELSE IF Cardinality(g.exhausted_keys) >= NumKeys
    THEN [g |-> [g EXCEPT !.enabled = FALSE], val |-> None]
  ELSE LET i == SkipExhausted(g.current_key_index, g.exhausted_keys, NumKeys)
       IN  [g |-> [g EXCEPT !.current_key_index = i], val |-> Some(i)]

GetCurrentModel(g) ==
  IF ~g.enabled \/ NumModels = 0
    THEN [g |-> g, val |-> None]
  ELSE IF Cardinality(g.exhausted_models) >= NumModels
    THEN [g |-> [g EXCEPT !.enabled = FALSE], val |-> None]
  ELSE LET i == SkipExhausted(g.current_model_index, g.exhausted_models,
                              NumModels)
       IN  [g |-> [g EXCEPT !.current_model_index = i], val |-> Some(i)]

RotateApiKeyKeepModels(g) ==
  IF ~g.enabled \/ NumKeys = 0 THEN g
  ELSE
    LET keys == g.exhausted_keys \cup {g.current_key_index}
        next_index == NextAvailable((g.current_key_index + 1) % NumKeys,
                                    keys, NumKeys)
        g1 == [g EXCEPT !.exhausted_keys = keys]
    IN  IF next_index \notin keys
          THEN [g1 EXCEPT !.current_key_index = next_index]
          ELSE [g1 EXCEPT !.enabled = FALSE]

RotateApiKeyStayEnabled(g) ==
  IF ~g.enabled \/ NumKeys = 0 THEN g
  ELSE
    LET keys == g.exhausted_keys \cup {g.current_key_index}
        next_index == NextAvailable((g.current_key_index + 1) % NumKeys,
                                    keys, NumKeys)
        g1 == [g EXCEPT !.exhausted_keys = keys,
                        !.exhausted_models = {},
                        !.current_model_index = 0]
    IN  IF next_index \notin keys
          THEN [g1 EXCEPT !.current_key_index = next_index]
          ELSE g1

RotateApiKeyForgetKey(g) ==
  IF ~g.enabled \/ NumKeys = 0 THEN g
  ELSE
    LET keys == g.exhausted_keys
        next_index == NextAvailable((g.current_key_index + 1) % NumKeys,
                                    keys, NumKeys)
        g1 == [g EXCEPT !.exhausted_models = {},
                        !.current_model_index = 0]
    IN  IF next_index \notin keys
          THEN [g1 EXCEPT !.current_key_index = next_index]
          ELSE [g1 EXCEPT !.enabled = FALSE]

RotateApiKey(g) ==
  IF ~g.enabled \/ NumKeys = 0 THEN g
  ELSE
    LET keys == g.exhausted_keys \cup {g.current_key_index}
        next_index == NextAvailable((g.current_key_index + 1) % NumKeys,
                                    keys, NumKeys)
        g1 == [g EXCEPT !.exhausted_keys = keys,
                        !.exhausted_models = {},
                        !.current_model_index = 0]
    IN  IF next_index \notin keys
          THEN [g1 EXCEPT !.current_key_index = next_index]
          ELSE [g1 EXCEPT !.enabled = FALSE]

RotateModelUnmarked(g) ==
  IF ~g.enabled \/ NumModels = 0 THEN g
  ELSE [g EXCEPT !.current_model_index = (@ + 1) % NumModels]

RotateModelWraps(g) ==
  IF ~g.enabled \/ NumModels = 0 THEN g
  ELSE
    LET models == g.exhausted_models \cup {g.current_model_index}
        next_index == NextAvailable((g.current_model_index + 1) % NumModels,
                                    models, NumModels)
        g1 == [g EXCEPT !.exhausted_models = models]
    IN  IF next_index \notin models
          THEN [g1 EXCEPT !.current_model_index = next_index]
          ELSE [g1 EXCEPT !.exhausted_models = {}, !.current_model_index = 0]

RotateModel(g) ==
  IF ~g.enabled \/ NumModels = 0 THEN g
  ELSE
    LET models == g.exhausted_models \cup {g.current_model_index}
        next_index == NextAvailable((g.current_model_index + 1) % NumModels,
                                    models, NumModels)
        g1 == [g EXCEPT !.exhausted_models = models]
    IN  IF next_index \notin models
          THEN [g1 EXCEPT !.current_model_index = next_index]
          ELSE RotateApiKey(g1)

\* max_attempts = len(self.models) * len(self.api_keys)
MaxAttempts == NumModels * NumKeys

(***************************************************************************)
(* FileManager.append_product_to_json: replace the first record with the   *)
(* same unique_id, otherwise append.                                       *)
(***************************************************************************)
FindIndex(store, uid) ==
  LET hits == {i \in 1..Len(store) : store[i].unique_id = uid}
  IN  IF hits = {} THEN 0
      ELSE CHOOSE i \in hits : \A j \in hits : i <= j

AppendProductAlways(store, product) == Append(store, product)

AppendProductNowhere(store, product) == store

AppendProductOverwrite(store, product) == <<product>>

AppendProductToJson(store, product) ==
  LET i == FindIndex(store, product.unique_id)
  IN  IF i > 0 THEN [store EXCEPT ![i] = product]
      ELSE Append(store, product)

\* ProductPrice.is_valid
PriceIsValid(p) ==
  p.current_price # None /\ \A v \in p.current_price : v > 0

IsValidAlways(p) == TRUE

\* ProductData.is_valid
IsValid(p) ==
  p.name # "" /\ p.images # <<>> /\ PriceIsValid(p)

(***************************************************************************)
(* The locals of a process_message execution.                              *)
(***************************************************************************)
NoProduct ==
  [unique_id |-> <<>>, channel_id |-> 0, message_id |-> 0, name |-> "",
   images |-> <<>>, current_price |-> None, old_price |-> None,
   extraction_method |-> MANUAL]

IdleTask ==
  [pc |-> "idle", chat_id |-> 0, id |-> 0, attempt |-> 0, retries |-> 0,
   result |-> None, product |-> NoProduct, success |-> None]

Range(s) == {s[i] : i \in 1..Len(s)}

AllIdle == \A h \in Handlers : task[h].pc = "idle"

\* not in hybrid mode
NoHybrid ==
  [channels |-> <<>>, posted |-> [c \in Channels |-> 0], registered |-> FALSE]

\* no lookback walk under way
NoLook ==
  [pc |-> "idle", chat_id |-> 0, id |-> 0, max_lookback |-> 0,
   keyed |-> FALSE, offset |-> 0, yielded |-> 0, media_list |-> <<>>,
   floods |-> 0, fetched |-> <<>>, result |-> <<>>]

\* no history replay under way
NoHistory ==
  [chat_id |-> 0, batch_size |-> 0, todo |-> <<>>, messages_batch |-> <<>>,
   queue |-> <<>>, reference |-> None]

InitState ==
  /\ gemini = GeminiInit
  /\ processed = {}
  /\ pending = [c \in Channels |-> <<>>]
  /\ cache = [c \in Channels |-> {}]
  /\ products = <<>>
  /\ offline = <<>>
  /\ failed = <<>>
  /\ backendOn \in BOOLEAN
  /\ task = [h \in Handlers |-> IdleTask]
  /\ world = [k \in Channels \X MsgIds |-> Unseen]
  /\ run = 1
  /\ nCalls = 0
  /\ delivered = {}
  /\ attached = {}
  /\ lost = {}
  /\ quotaRun = Some([calls |-> 0, rotations |-> 0])
  /\ leftPairs = {}
  /\ stopped = FALSE

Init ==
  /\ InitState
  /\ hist = NoHistory
  /\ priceIn = <<>>
  /\ priceOut = None
  /\ textIn = <<>>
  /\ textOut = <<>>
  /\ look = NoLook
  /\ hybrid = NoHybrid

(***************************************************************************)
(* process_message, up to its first suspension point (lines 1156-1211):    *)
(* the stored-record short circuit, the processed check, the cache write,  *)
(* the buffering of a message without text, the processed mark.            *)
(***************************************************************************)
\* next((p for p in existing_products if p.get('unique_id') == unique_id))
ExistingProduct(store, uid) ==
  LET i == FindIndex(store, uid)
  IN  IF i > 0 THEN Some(store[i]) ELSE None

ShortCircuitsNever(store, uid) == FALSE

\* the stored record is delivered again unless it was extracted manually
ShortCircuits(store, uid) ==
  \E p \in ExistingProduct(store, uid) : p.extraction_method # MANUAL

\* if unique_id in self.processed_messages: return
SkipProcessedNever(unique_id, processed_messages) == FALSE

SkipProcessed(unique_id, processed_messages) ==
  unique_id \in processed_messages

MarkProcessedNot(processed_messages, unique_id) == processed_messages

\* self.processed_messages.add(unique_id)
MarkProcessed(processed_messages, unique_id) ==
  processed_messages \cup {unique_id}

ProcessMessageBody(h, c, m, k) ==
  LET unique_id == UniqueId(c, m) IN
  /\ task[h].pc = "idle"
  /\ ~stopped
  /\ nCalls < MaxCalls
  /\ world[<<c, m>>] \in {Unseen, k}
  /\ world' = [world EXCEPT ![<<c, m>>] = k]
  /\ nCalls' = nCalls + 1
  /\ IF ShortCircuits(products, unique_id)
       THEN /\ task' = [task EXCEPT ![h] =
                 [IdleTask EXCEPT !.pc = "resend", !.chat_id = c, !.id = m,
                    !.product = CHOOSE p \in ExistingProduct(products, unique_id) : TRUE]]
            /\ UNCHANGED <<processed, cache, pending>>
     ELSE IF SkipProcessed(unique_id, processed)
       THEN UNCHANGED <<task, processed, cache, pending>>
     ELSE /\ cache' = [cache EXCEPT ![c] = @ \cup {m}]
          /\ IF ~HasText(k)
               THEN /\ pending' = IF HasMedia(k)
                                    THEN [pending EXCEPT ![c] = Append(@, m)]
                                    ELSE pending
                    /\ UNCHANGED <<task, processed>>
               ELSE /\ processed' = MarkProcessed(processed, unique_id)
                    /\ task' = [task EXCEPT ![h] =
                         [IdleTask EXCEPT !.pc = "extract", !.chat_id = c,
                                          !.id = m]]
                    /\ UNCHANGED pending
  /\ UNCHANGED <<gemini, stores, backendOn, run, ghosts>>

\* process_message called when no other execution of it is under way
ProcessMessage(h, c, m, k) ==
  /\ AllIdle
  /\ ProcessMessageBody(h, c, m, k)
  /\ UNCHANGED modes

(***************************************************************************)
(* GeminiExtractor.extract: one iteration of its loop that reaches the     *)
(* service (GeminiCall), or the return of None without a call              *)
(* (ExtractReturn).                                                        *)
(***************************************************************************)
\* the state after get_current_model() and get_current_api_key()
AfterGetters(g) == GetCurrentApiKey(GetCurrentModel(g).g).g

\* both getters returned a value
PairAvailable(g) ==
  /\ GetCurrentModel(g).val # None
  /\ GetCurrentApiKey(GetCurrentModel(g).g).val # None

CanCall(h) ==
  /\ task[h].pc = "extract"
  /\ gemini.enabled
  /\ task[h].attempt < MaxAttempts
  /\ PairAvailable(gemini)

AfterReplyErrorsOnly(g, reply) ==
  IF reply.kind \in {"daily", "rate_limit_zero", "unavailable", "not_found"}
    THEN RotateModel(g)
    ELSE g

\* the rotation a reply causes
AfterReply(g, reply) ==
  IF reply.kind \in {"daily", "rate_limit_zero", "unavailable", "max_tokens",
                    "not_found"}
    THEN RotateModel(g)
    ELSE g

\* the loop goes on with the next iteration
Continues(g, reply) ==
  \/ reply.kind = "rate_limit"
  \/ /\ reply.kind \in {"daily", "rate_limit_zero", "unavailable", "not_found"}
     /\ g.enabled

NextAttemptUncounted(attempt, reply) == attempt

\* "attempt += 1" on every rotation; a rate-limit retry does not count
NextAttempt(attempt, reply) ==
  IF reply.kind = "rate_limit" THEN attempt ELSE attempt + 1

GeminiCall(h, reply) ==
  LET g0 == AfterGetters(gemini)
      g1 == AfterReply(g0, reply)
      pair == <<g0.current_key_index, g0.current_model_index>>
  IN
  /\ CanCall(h)
  /\ reply.kind = "rate_limit" => task[h].retries < MaxRateLimitRetries
  /\ gemini' = g1
  /\ task' = [task EXCEPT ![h] =
       IF reply.kind = "ok"
         THEN [@ EXCEPT !.pc = "assemble", !.result = Some(reply.result)]
       ELSE IF Continues(g1, reply)
         THEN [@ EXCEPT
                 !.attempt = NextAttempt(@, reply),
                 !.retries = IF reply.kind = "rate_limit" THEN @ + 1 ELSE @]
       ELSE [@ EXCEPT !.pc = "assemble", !.result = None]]
  /\ quotaRun' = IF reply.kind = "daily"
                   THEN {[calls |-> q.calls + 1, rotations |-> q.rotations + 1]
                           : q \in quotaRun}
                   ELSE None
  /\ leftPairs' = IF reply.kind \in {"daily", "rate_limit_zero", "not_found"}
                    THEN leftPairs \cup {pair}
                    ELSE leftPairs
  /\ UNCHANGED <<processed, pending, cache, stores, backendOn, world, run,
                 nCalls, delivered, attached, lost, modes>>

ExtractReturn(h) ==
  /\ task[h].pc = "extract"
  /\ ~CanCall(h)
  /\ gemini' = IF gemini.enabled /\ task[h].attempt < MaxAttempts
                 THEN AfterGetters(gemini)
                 ELSE gemini
  /\ task' = [task EXCEPT ![h].pc = "assemble", ![h].result = None]
  /\ UNCHANGED <<processed, pending, cache, stores, backendOn, world, run,
                 nCalls, ghosts, modes>>

(***************************************************************************)
(* Media collection (collect_previous_media, _collect_from_cache,          *)
(* _collect_all_media, _add_media_to_product, MediaHandler.download).      *)
(***************************************************************************)
MAX_LOOKBACK == 20

Max(a, b) == IF a > b THEN a ELSE b

\* the walk of _collect_from_cache from msg_id down to low + 1, newest first
RECURSIVE CacheWalk(_, _, _)
CacheWalk(c, msg_id, low) ==
  IF msg_id <= low THEN <<>>
  ELSE IF msg_id \in cache[c] /\ HasText(world[<<c, msg_id>>]) THEN <<>>
  ELSE (IF msg_id \in cache[c] /\ HasMedia(world[<<c, msg_id>>])
          THEN <<msg_id>> ELSE <<>>)
       \o CacheWalk(c, msg_id - 1, low)

CollectFromCacheShortWindow(c, message_id, max_lookback) ==
  CacheWalk(c, message_id - 1, Max(message_id - max_lookback, 0))

CollectFromCache(c, message_id, max_lookback) ==
  CacheWalk(c, message_id - 1, Max(message_id - max_lookback - 1, 0))

Reverse(s) == [i \in 1..Len(s) |-> s[Len(s) + 1 - i]]

CollectPreviousMediaNewestFirst(c, message_id) ==
  CollectFromCache(c, message_id, MAX_LOOKBACK)

\* process_message has cached the message itself, so chat_id is always a
\* key of message_cache and the cache branch is the one taken
CollectPreviousMedia(c, message_id) ==
  Reverse(CollectFromCache(c, message_id, MAX_LOOKBACK))

MediaToAddNoBuffer(c, m) ==
  IF HasMedia(world[<<c, m>>]) THEN <<m>> ELSE <<>>

MediaToAddSkipsOldest(c, m) ==
  LET buffered == IF pending[c] = <<>> THEN <<>> ELSE Tail(pending[c])
      own == IF HasMedia(world[<<c, m>>]) THEN <<m>> ELSE <<>>
  IN  buffered \o own

\* the messages handed to _add_media_to_product, in order: the buffer, the
\* previous media not yet processed, the message's own media
MediaToAdd(c, m) ==
  LET buffered == pending[c]
      seen == processed \cup {UniqueId(c, b) : b \in Range(buffered)}
      previous == SelectSeq(CollectPreviousMedia(c, m),
                            LAMBDA x : UniqueId(c, x) \notin seen)
      own == IF HasMedia(world[<<c, m>>]) THEN <<m>> ELSE <<>>
  IN  buffered \o previous \o own

\* MediaHandler.download: None for an unsupported type or a failed
\* download, else the file named after (chat, message, index)
Download(c, x, index, failing) ==
  IF GetExtension(world[<<c, x>>]) = None \/ x \in failing
    THEN None
    ELSE Some(<<x, index>>)

\* product.images after _add_media_to_product for each message of msgs
RECURSIVE AddMedia(_, _, _, _)
AddMedia(images, c, msgs, failing) ==
  IF msgs = <<>> THEN images
  ELSE LET media_path == Download(c, Head(msgs), Len(images), failing)
       IN  AddMedia(IF media_path # None
                      THEN Append(images, CHOOSE f \in media_path : TRUE)
                      ELSE images,
                    c, Tail(msgs), failing)

\* number of images of a product that come from message x
ImagesFrom(images, x) == Cardinality({i \in 1..Len(images) : images[i][1] = x})

(***************************************************************************)
(* process_message from extract_product_info's result to the write to      *)
(* products.json (lines 1214-1247).                                        *)
(***************************************************************************)
\* bool(d) of a dict d or of None
Truthy(result) == \E d \in result : DOMAIN d # {}

\* d.get(key, default)
Get(d, key, default) == IF key \in DOMAIN d THEN d[key] ELSE default

ExtractProductInfoFromAI(result, text) ==
  LET d == CHOOSE r \in result \cup {GoodResult} : TRUE
  IN  [data |-> [name |-> Get(d, "name", ""),
                 current_price |-> Get(d, "current_price", None),
                 old_price |-> Get(d, "old_price", None)],
       method |-> GEMINI]

\* extract_product_info: the AI result if it is truthy, else the rules
ExtractProductInfo(result, text) ==
  IF Truthy(result)
    THEN LET d == CHOOSE r \in result : TRUE
         IN  [data |-> [name |-> Get(d, "name", ""),
                        current_price |-> Get(d, "current_price", None),
                        old_price |-> Get(d, "old_price", None)],
              method |-> GEMINI]
    ELSE [data |-> ManualExtract(text), method |-> MANUAL]

NewProduct(c, m, result, images) ==
  LET info == ExtractProductInfo(result, world[<<c, m>>].text)
  IN  [unique_id |-> UniqueId(c, m), channel_id |-> c, message_id |-> m,
       name |-> info.data.name, images |-> images,
       current_price |-> info.data.current_price,
       old_price |-> info.data.old_price,
       extraction_method |-> info.method]

Assemble(h, failing) ==
  LET c == task[h].chat_id
      m == task[h].id
      msgs == MediaToAdd(c, m)
      product == NewProduct(c, m, task[h].result,
                            AddMedia(<<>>, c, msgs, failing))
  IN
  /\ task[h].pc = "assemble"
  /\ failing \subseteq {x \in Range(msgs) : world[<<c, x>>].media = "photo"}
  /\ pending' = [pending EXCEPT ![c] = <<>>]
  /\ processed' = processed \cup {UniqueId(c, x) : x \in Range(msgs)}
  /\ attached' = attached \cup
                    {<<c, x>> : x \in {y \in Range(msgs) :
                                        ImagesFrom(product.images, y) > 0}}
  /\ lost' = lost \cup
                {<<c, x>> : x \in {y \in Range(msgs) :
                                        Download(c, y, 0, failing) = None}}
  /\ IF IsValid(product)
       THEN /\ products' = AppendProductToJson(products, product)
            /\ task' = [task EXCEPT ![h].pc = "send", ![h].product = product]
       ELSE /\ task' = [task EXCEPT ![h] = IdleTask]
            /\ UNCHANGED products
  /\ UNCHANGED <<gemini, cache, offline, failed, backendOn, world, run,
                 nCalls, delivered, quotaRun, leftPairs, modes>>

(***************************************************************************)
(* BackendClient.send_product and the end of process_message.              *)
(***************************************************************************)
BackendReplies == {"200", "201", "204", "500", "exception"}

SendProductRaises(h, reply) ==
  /\ task[h].pc \in {"send", "resend"}
  /\ stopped' = TRUE
  /\ task' = [task EXCEPT ![h] = IdleTask]
  /\ UNCHANGED <<gemini, processed, pending, cache, stores, backendOn,
                 world, run, nCalls, ghosts, hist, priceIn, priceOut,
                 textIn, textOut, look, hybrid>>

SendProductMarksProcessed(h, reply) ==
  LET product == task[h].product
      success == backendOn /\ reply \in {"200", "201"}
  IN
  /\ task[h].pc \in {"send", "resend"}
  /\ IF ~backendOn
       THEN /\ offline' = AppendProductToJson(offline, product)
            /\ UNCHANGED <<failed, delivered>>
       ELSE /\ delivered' = delivered \cup {product.unique_id}
            /\ failed' = IF reply \in {"200", "201"}
                           THEN failed
                           ELSE AppendProductToJson(failed, product)
            /\ UNCHANGED offline
  /\ processed' = processed \cup {product.unique_id}
  /\ task' = [task EXCEPT ![h] = [IdleTask EXCEPT !.success = Some(success)]]
  /\ UNCHANGED <<gemini, pending, cache, products, backendOn,
                 world, run, nCalls, attached, lost, quotaRun, leftPairs,
                 modes>>

SendProduct(h, reply) ==
  LET product == task[h].product
      \* the value send_product returns
      success == backendOn /\ reply \in {"200", "201"}
  IN
  /\ task[h].pc \in {"send", "resend"}
  /\ IF ~backendOn
       THEN /\ offline' = AppendProductToJson(offline, product)
            /\ UNCHANGED <<failed, delivered>>
       ELSE /\ delivered' = delivered \cup {product.unique_id}
            /\ failed' = IF reply \in {"200", "201"}
                           THEN failed
                           ELSE AppendProductToJson(failed, product)
            /\ UNCHANGED offline
  /\ task' = [task EXCEPT ![h] = [IdleTask EXCEPT !.success = Some(success)]]
  /\ UNCHANGED <<gemini, processed, pending, cache, products, backendOn,
                 world, run, nCalls, attached, lost, quotaRun, leftPairs,
                 modes>>

(***************************************************************************)
(* A new run: TelegramProductScraper.__init__ builds fresh in-memory       *)
(* state; the three JSON files stay as the last run left them.             *)
(***************************************************************************)
NewRun ==
  /\ AllIdle
  /\ run < MaxRuns
  /\ run' = run + 1
  /\ gemini' = GeminiInit
  /\ processed' = {}
  /\ pending' = [c \in Channels |-> <<>>]
  /\ cache' = [c \in Channels |-> {}]
  /\ delivered' = {}
  /\ attached' = {}
  /\ lost' = {}
  /\ quotaRun' = Some([calls |-> 0, rotations |-> 0])
  /\ leftPairs' = {}
  /\ stopped' = FALSE
  /\ UNCHANGED <<stores, backendOn, task, world, nCalls, hist, priceIn,
                 priceOut, textIn, textOut, look, hybrid>>

(***************************************************************************)
(* Spec: the pipeline.  Any message of any channel may be handed to        *)
(* process_message, in any order and repeatedly; the AI service answers a  *)
(* call with a result or with an error that is not a quota error, so an    *)
(* extraction yields either an AI result or None and the rotation state    *)
(* stays as GeminiExtractor.__init__ set it.                               *)
(***************************************************************************)
PipelineReplies == {r \in Replies : r.kind \in {"ok", "other"}}

Next ==
  \/ \E h \in Sequential, c \in Channels, m \in MsgIds :
       \E k \in KindsOf(c, m) : ProcessMessage(h, c, m, k)
  \/ \E h \in Handlers, reply \in PipelineReplies : GeminiCall(h, reply)
  \/ \E h \in Handlers, failing \in SUBSET MsgIds : Assemble(h, failing)
  \/ \E h \in Handlers, reply \in BackendReplies : SendProduct(h, reply)
  \/ NewRun

Spec == Init /\ [][Next]_vars

(***************************************************************************)
(* SpecRotation: the extractor.  Every message is a caption with a photo,  *)
(* every download and every delivery succeeds, and the AI service answers  *)
(* each call with any reply.                                               *)
(***************************************************************************)
Caption == [text |-> "full", media |-> "photo"]

InitRotation ==
  /\ Init
  /\ backendOn

RotationReplies ==
  {r \in Replies : r.kind = "ok" => r.result \in {GoodResult, EmptyDict}}

NextRotation ==
  \/ \E h \in Sequential, m \in MsgIds :
       ProcessMessage(h, NumChannels, m, Caption)
  \/ \E h \in Handlers, reply \in RotationReplies : GeminiCall(h, reply)
  \/ \E h \in Handlers : ExtractReturn(h)
  \/ \E h \in Handlers : Assemble(h, {})
  \/ \E h \in Handlers : SendProduct(h, "200")
  \/ NewRun

SpecRotation == InitRotation /\ [][NextRotation]_vars

\* The event loop resumes extract when the HTTP call (time-out 30 s) or the
\* sleep it awaits is over.
SpecRotationFair ==
  /\ SpecRotation
  /\ \A h \in Handlers :
       /\ WF_vars(\E reply \in RotationReplies : GeminiCall(h, reply))
       /\ WF_vars(ExtractReturn(h))

(***************************************************************************)
(* SpecPrice: PriceExtractor.extract on its own, applied once to any text  *)
(* of at most MaxTokens tokens.                                            *)
(***************************************************************************)
InitPrice ==
  /\ InitState
  /\ backendOn
  /\ hist = NoHistory
  /\ priceIn \in Texts
  /\ priceOut = None
  /\ textIn = <<>>
  /\ textOut = <<>>
  /\ look = NoLook
  /\ hybrid = NoHybrid

ExtractPrice ==
  /\ priceOut = None
  /\ priceOut' = Some(PriceExtract(priceIn))
  /\ UNCHANGED <<gemini, processed, pending, cache, stores, backendOn, task,
                 world, run, nCalls, ghosts, hist, stopped, priceIn,
                 textIn, textOut, look, hybrid>>

NextPrice == ExtractPrice

SpecPrice == InitPrice /\ [][NextPrice]_vars

(***************************************************************************)
(* SpecText: the rule-based branch of extract_product_info applied to any  *)
(* text of at most MaxTextLen tokens, and TextExtractor.extract applied    *)
(* once more to the three fields it returned, joined by line breaks.       *)
(***************************************************************************)
InitText ==
  /\ InitState
  /\ backendOn
  /\ hist = NoHistory
  /\ priceIn = <<>>
  /\ priceOut = None
  /\ textIn \in TextInputs
  /\ textOut = <<>>
  /\ look = NoLook
  /\ hybrid = NoHybrid

\* text_data = TextExtractor.extract(text)
\* price_data = PriceExtractor.extract(text)
ExtractManual ==
  /\ textOut = <<>>
  /\ textOut' = <<TextExtract(textIn)>>
  /\ priceIn' = textIn
  /\ priceOut' = Some(PriceExtract(textIn))
  /\ UNCHANGED <<gemini, processed, pending, cache, stores, backendOn, task,
                 world, run, nCalls, ghosts, hist, stopped, textIn, look, hybrid>>

\* name, short_description and description joined by line breaks
Rejoined(text_data) ==
  text_data.name \o <<Tok("nl")>> \o text_data.short_description
    \o <<Tok("nl")>> \o text_data.description

ExtractAgain ==
  /\ Len(textOut) = 1
  /\ textOut' = Append(textOut, TextExtract(Rejoined(textOut[1])))
  /\ UNCHANGED <<gemini, processed, pending, cache, stores, backendOn, task,
                 world, run, nCalls, ghosts, hist, stopped, priceIn,
                 priceOut, textIn, look, hybrid>>

NextText == ExtractManual \/ ExtractAgain

SpecText == InitText /\ [][NextText]_vars

(***************************************************************************)
(* SpecHistory: scrape_channel_history replays one channel with some       *)
(* BATCH_SIZE; afterwards the program is installed afresh (no JSON files)  *)
(* and replays the same channel with another BATCH_SIZE.  The AI service   *)
(* answers every call with the same result and every download and every    *)
(* delivery succeeds, so that the two replays differ in the batch size     *)
(* alone.                                                                  *)
(***************************************************************************)
BatchSizes == 1..(MaxMsgId + 1)

\* client.iter_messages(entity) yields the newest message first
RECURSIVE NewestFirst(_)
NewestFirst(n) == IF n = 0 THEN <<>> ELSE <<n>> \o NewestFirst(n - 1)

StartHistory(c, batch_size) ==
  [chat_id |-> c, batch_size |-> batch_size, todo |-> NewestFirst(MaxMsgId),
   messages_batch |-> <<>>, queue |-> <<>>, reference |-> None]

InitHistory ==
  /\ InitState
  /\ backendOn
  /\ \E c \in Channels, b \in BatchSizes : hist = StartHistory(c, b)
  /\ priceIn = <<>>
  /\ priceOut = None
  /\ textIn = <<>>
  /\ textOut = <<>>
  /\ look = NoLook
  /\ hybrid = NoHybrid

\* one iteration of "async for message in self.client.iter_messages": the
\* message is cached and batched, and a full batch is handed to
\* _process_batch, which takes its messages oldest first
IterMessage(k) ==
  LET c == hist.chat_id
      m == Head(hist.todo)
      batch == Append(hist.messages_batch, m)
  IN
  /\ AllIdle
  /\ ~stopped
  /\ hist.queue = <<>>
  /\ hist.todo # <<>>
  /\ k \in KindsOf(c, m)
  /\ world[<<c, m>>] \in {Unseen, k}
  /\ world' = [world EXCEPT ![<<c, m>>] = k]
  /\ cache' = [cache EXCEPT ![c] = @ \cup {m}]
  /\ hist' = IF Len(batch) >= hist.batch_size
               THEN [hist EXCEPT !.todo = Tail(@), !.messages_batch = <<>>,
                                 !.queue = Reverse(batch)]
               ELSE [hist EXCEPT !.todo = Tail(@), !.messages_batch = batch]
  /\ UNCHANGED <<gemini, processed, pending, stores, backendOn, task, run,
                 nCalls, ghosts, stopped, priceIn, priceOut,
                 textIn, textOut, look, hybrid>>

\* "if messages_batch:" after the loop: the remaining messages
RemainingBatch ==
  /\ AllIdle
  /\ ~stopped
  /\ hist.todo = <<>>
  /\ hist.queue = <<>>
  /\ hist.messages_batch # <<>>
  /\ hist' = [hist EXCEPT !.messages_batch = <<>>,
                          !.queue = Reverse(hist.messages_batch)]
  /\ UNCHANGED <<gemini, processed, pending, cache, stores, backendOn, task,
                 world, run, nCalls, ghosts, stopped, priceIn, priceOut,
                 textIn, textOut, look, hybrid>>

\* _process_batch: await self.process_message(msg, channel_name, entity)
ProcessBatchMessage(h) ==
  /\ AllIdle
  /\ hist.queue # <<>>
  /\ ProcessMessageBody(h, hist.chat_id, Head(hist.queue),
                        world[<<hist.chat_id, Head(hist.queue)>>])
  /\ hist' = [hist EXCEPT !.queue = Tail(@)]
  /\ UNCHANGED <<stopped, priceIn, priceOut,
                 textIn, textOut, look, hybrid>>

HistoryDone ==
  /\ AllIdle
  /\ hist.chat_id # 0
  /\ hist.todo = <<>>
  /\ hist.messages_batch = <<>>
  /\ hist.queue = <<>>

\* what a replay produced: the products and, for each, the messages its
\* images come from, in order
Outcome(store) ==
  {[unique_id |-> p.unique_id,
    media |-> [i \in 1..Len(p.images) |-> p.images[i][1]]] : p \in Range(store)}

\* a fresh installation replays the channel with another batch size
ReplayAgain(batch_size) ==
  /\ HistoryDone
  /\ hist.reference = None
  /\ run < MaxRuns
  /\ run' = run + 1
  /\ hist' = [StartHistory(hist.chat_id, batch_size)
                EXCEPT !.reference = Some(Outcome(products))]
  /\ gemini' = GeminiInit
  /\ processed' = {}
  /\ pending' = [c \in Channels |-> <<>>]
  /\ cache' = [c \in Channels |-> {}]
  /\ products' = <<>>
  /\ offline' = <<>>
  /\ failed' = <<>>
  /\ nCalls' = 0
  /\ delivered' = {}
  /\ attached' = {}
  /\ lost' = {}
  /\ quotaRun' = Some([calls |-> 0, rotations |-> 0])
  /\ leftPairs' = {}
  /\ UNCHANGED <<backendOn, task, world, stopped, priceIn, priceOut,
                 textIn, textOut, look, hybrid>>

HistoryReplies == {[kind |-> "ok", result |-> GoodResult]}

NextHistory ==
  \/ \E k \in MsgKinds : IterMessage(k)
  \/ RemainingBatch
  \/ \E h \in Sequential : ProcessBatchMessage(h)
  \/ \E h \in Handlers, reply \in HistoryReplies : GeminiCall(h, reply)
  \/ \E h \in Handlers : Assemble(h, {})
  \/ \E h \in Handlers : SendProduct(h, "200")
  \/ \E b \in BatchSizes : ReplayAgain(b)

SpecHistory == InitHistory /\ [][NextHistory]_vars

(***************************************************************************)
(* SpecLive: start_live_monitoring.  The handler of events.NewMessage      *)
(* awaits process_message; the event loop starts the handler of the next   *)
(* message while an earlier one is suspended in an await.  A channel posts *)
(* a caption first and its media after it; the messages arrive in the      *)
(* order of the ids, and the event of a message that arrived can be        *)
(* delivered again.  The run can be cancelled at any moment.               *)
(***************************************************************************)
LiveKinds(c, m) == KindsOf(c, m + 1)

LiveMessage(h, c, m, k) ==
  /\ world[<<c, m>>] = Unseen
  /\ \A x \in 1..(m - 1) : world[<<c, x>>] # Unseen
  /\ ProcessMessageBody(h, c, m, k)
  /\ UNCHANGED modes

\* the event of a message is delivered a second time: the handler runs
\* process_message for it again, whatever the earlier executions are doing
LiveDuplicate(h, c, m) ==
  /\ world[<<c, m>>] # Unseen
  /\ ProcessMessageBody(h, c, m, world[<<c, m>>])
  /\ UNCHANGED modes

\* asyncio.run cancels the pending tasks on KeyboardInterrupt: each
\* suspended process_message gets CancelledError at its await, which no
\* except clause of the program catches
Cancel ==
  /\ ~stopped
  /\ stopped' = TRUE
  /\ task' = [h \in Handlers |-> IdleTask]
  /\ UNCHANGED <<gemini, processed, pending, cache, stores, backendOn, world,
                 run, nCalls, ghosts, hist, priceIn, priceOut,
                 textIn, textOut, look, hybrid>>

LiveReplies ==
  {r \in Replies : r.kind = "other" \/ (r.kind = "ok" /\ r.result = GoodResult)}

NextLive ==
  \/ \E h \in Handlers, c \in Channels, m \in MsgIds :
       \E k \in LiveKinds(c, m) : LiveMessage(h, c, m, k)
  \/ \E h \in Handlers, c \in Channels, m \in MsgIds : LiveDuplicate(h, c, m)
  \/ \E h \in Handlers, reply \in LiveReplies : GeminiCall(h, reply)
  \/ \E h \in Handlers : Assemble(h, {})
  \/ \E h \in Handlers, reply \in {"200", "500"} : SendProduct(h, reply)
  \/ Cancel

SpecLive == Init /\ [][NextLive]_vars

(***************************************************************************)
(* SpecHybrid: _run_hybrid_mode.  scrape_channel_history is awaited for    *)
(* one channel of CHANNELS after the other and start_live_monitoring       *)
(* registers the handler afterwards.  The channels go on posting all the   *)
(* while: a message posted before the replay of its channel starts is part *)
(* of the replay, one posted later reaches the program only through a      *)
(* registered handler.                                                     *)
(***************************************************************************)
\* CHANNELS, in the order of the for loop
ChannelList == [i \in 1..NumChannels |-> i]

InitHybrid ==
  /\ InitState
  /\ backendOn
  /\ hist = NoHistory
  /\ priceIn = <<>>
  /\ priceOut = None
  /\ textIn = <<>>
  /\ textOut = <<>>
  /\ look = NoLook
  /\ hybrid = [channels |-> ChannelList, posted |-> [c \in Channels |-> 1],
               registered |-> FALSE]

\* no scrape_channel_history call is under way
NoReplay ==
  /\ hist.todo = <<>>
  /\ hist.messages_batch = <<>>
  /\ hist.queue = <<>>

\* the next scrape_channel_history call of the loop (1529-1531): it empties
\* the channel's cache and buffer (1350-1351) and iterates the messages the
\* channel holds
ScrapeNextChannel(batch_size) ==
  LET c == Head(hybrid.channels) IN
  /\ AllIdle
  /\ ~stopped
  /\ NoReplay
  /\ hybrid.channels # <<>>
  /\ hybrid' = [hybrid EXCEPT !.channels = Tail(@)]
  /\ hist' = [StartHistory(c, batch_size)
                EXCEPT !.todo = NewestFirst(hybrid.posted[c])]
  /\ cache' = [cache EXCEPT ![c] = {}]
  /\ pending' = [pending EXCEPT ![c] = <<>>]
  /\ UNCHANGED <<gemini, processed, stores, backendOn, task, world, run,
                 nCalls, ghosts, stopped, priceIn, priceOut, textIn, textOut,
                 look>>

\* an exception in the iteration ends the replay of the channel (1391-1392)
ScrapeFails ==
  /\ AllIdle
  /\ hist.todo # <<>>
  /\ hist.queue = <<>>
  /\ hist' = [hist EXCEPT !.todo = <<>>, !.messages_batch = <<>>]
  /\ UNCHANGED <<gemini, processed, pending, cache, stores, backendOn, task,
                 world, run, nCalls, ghosts, stopped, priceIn, priceOut,
                 textIn, textOut, look, hybrid>>

StartLiveMonitoringAtOnce ==
  /\ AllIdle
  /\ ~hybrid.registered
  /\ hybrid' = [hybrid EXCEPT !.registered = TRUE]
  /\ UNCHANGED <<gemini, processed, pending, cache, stores, backendOn, task,
                 world, run, nCalls, ghosts, hist, stopped, priceIn,
                 priceOut, textIn, textOut, look>>

\* start_live_monitoring (1403-1427), reached when the loop over CHANNELS
\* is over (1544)
StartLiveMonitoring ==
  /\ AllIdle
  /\ NoReplay
  /\ hybrid.channels = <<>>
  /\ ~hybrid.registered
  /\ hybrid' = [hybrid EXCEPT !.registered = TRUE]
  /\ UNCHANGED <<gemini, processed, pending, cache, stores, backendOn, task,
                 world, run, nCalls, ghosts, hist, stopped, priceIn,
                 priceOut, textIn, textOut, look>>

\* a channel posts a message while no handler is registered: no code of the
\* program runs for the event
Post(c) ==
  /\ ~hybrid.registered
  /\ hybrid.posted[c] < MaxMsgId
  /\ hybrid' = [hybrid EXCEPT !.posted[c] = @ + 1]
  /\ UNCHANGED <<gemini, processed, pending, cache, stores, backendOn, task,
                 world, run, nCalls, ghosts, hist, stopped, priceIn,
                 priceOut, textIn, textOut, look>>

\* a channel posts a message and the registered handler awaits
\* process_message for it
HandleEvent(h, c, k) ==
  LET m == hybrid.posted[c] + 1 IN
  /\ hybrid.registered
  /\ hybrid.posted[c] < MaxMsgId
  /\ k \in KindsOf(c, m)
  /\ ProcessMessageBody(h, c, m, k)
  /\ hybrid' = [hybrid EXCEPT !.posted[c] = m]
  /\ UNCHANGED <<hist, stopped, priceIn, priceOut, textIn, textOut, look>>

NextHybrid ==
  \/ \E b \in BatchSizes : ScrapeNextChannel(b)
  \/ \E k \in MsgKinds : IterMessage(k)
  \/ RemainingBatch
  \/ \E h \in Sequential : ProcessBatchMessage(h)
  \/ ScrapeFails
  \/ StartLiveMonitoring
  \/ \E c \in Channels : Post(c)
  \/ \E h \in Handlers, c \in Channels, k \in MsgKinds : HandleEvent(h, c, k)
  \/ \E h \in Handlers, reply \in LiveReplies : GeminiCall(h, reply)
  \/ \E h \in Handlers : Assemble(h, {})
  \/ \E h \in Handlers, reply \in {"200", "500"} : SendProduct(h, reply)

SpecHybrid == InitHybrid /\ [][NextHybrid]_vars

(***************************************************************************)
(* SpecCollect: _collect_all_media and collect_previous_media on their     *)
(* own.  Channel 1 holds the messages 1..MaxLookId; the newest one bears   *)
(* text and is the message whose media are collected.  Either              *)
(* process_message has reached _collect_all_media for it (the message is   *)
(* cached, some older messages are cached, buffered or processed), or the  *)
(* channel is no key of message_cache yet and collect_previous_media walks *)
(* the channel through client.iter_messages.                               *)
(***************************************************************************)
MaxLookId == 4
MaxFloods == 1

LookIds == 1..MaxLookId
LookChannel == 1

\* the values of max_lookback: two that cut the window short and the
\* default of config.MAX_LOOKBACK
Lookbacks == {1, 2, MAX_LOOKBACK}

OlderKinds ==
  { [text |-> "none",  media |-> "photo"],
    [text |-> "none",  media |-> "doc"],
    [text |-> "blank", media |-> "photo"],
    [text |-> "full",  media |-> "none"] }

OwnKinds ==
  { [text |-> "full", media |-> "none"],
    [text |-> "full", media |-> "photo"] }

\* the sequences of at most two distinct elements of S
ShortSeqs(S) ==
  {<<>>} \cup {<<x>> : x \in S}
         \cup {s \in S \X S : s[1] # s[2]}

InitCollect ==
  /\ gemini = GeminiInit
  /\ products = <<>>
  /\ offline = <<>>
  /\ failed = <<>>
  /\ backendOn = TRUE
  /\ run = 1
  /\ nCalls = 1
  /\ delivered = {}
  /\ attached = {}
  /\ lost = {}
  /\ quotaRun = Some([calls |-> 0, rotations |-> 0])
  /\ leftPairs = {}
  /\ stopped = FALSE
  /\ hist = NoHistory
  /\ priceIn = <<>>
  /\ priceOut = None
  /\ textIn = <<>>
  /\ textOut = <<>>
  /\ hybrid = NoHybrid
  /\ \E older \in [1..(MaxLookId - 1) -> OlderKinds], own \in OwnKinds :
       world = [k \in Channels \X LookIds |->
                  IF k[1] # LookChannel THEN Unseen
                  ELSE IF k[2] = MaxLookId THEN own ELSE older[k[2]]]
  /\ \E max_lookback \in Lookbacks :
       \/ \E cached \in SUBSET (1..(MaxLookId - 1)) :
            /\ cache = [c \in Channels |->
                          IF c = LookChannel THEN cached \cup {MaxLookId}
                          ELSE {}]
            /\ pending \in
                 {[c \in Channels |-> IF c = LookChannel THEN b ELSE <<>>] :
                    b \in ShortSeqs({x \in cached :
                                       /\ ~HasText(world[<<LookChannel, x>>])
                                       /\ HasMedia(world[<<LookChannel, x>>])})}
            /\ processed \in
                 {{UniqueId(LookChannel, x) : x \in P} :
                    P \in SUBSET (cached \ Range(pending[LookChannel]))}
            /\ task = [h \in Handlers |->
                         IF h \in Sequential
                           THEN [IdleTask EXCEPT !.pc = "assemble",
                                                 !.chat_id = LookChannel,
                                                 !.id = MaxLookId,
                                                 !.result = Some(GoodResult)]
                           ELSE IdleTask]
            /\ look = [NoLook EXCEPT !.chat_id = LookChannel,
                                     !.id = MaxLookId,
                                     !.max_lookback = max_lookback,
                                     !.keyed = TRUE]
       \/ /\ cache = [c \in Channels |-> {}]
          /\ pending = [c \in Channels |-> <<>>]
          /\ processed = {}
          /\ task = [h \in Handlers |-> IdleTask]
          /\ look = [NoLook EXCEPT !.chat_id = LookChannel,
                                   !.id = MaxLookId,
                                   !.max_lookback = max_lookback]

\* collect_previous_media (1060-1084): the cache branch runs to its end
\* without an await; the other branch starts the walk of
\* _collect_from_telegram with an empty media_list
CollectPrevious ==
  /\ look.pc = "idle"
  /\ look.id # 0
  /\ IF look.keyed
       THEN look' = [look EXCEPT
                       !.pc = "done",
                       !.result = Reverse(CollectFromCache(look.chat_id,
                                            look.id, look.max_lookback))]
       ELSE look' = [look EXCEPT !.pc = "walk", !.offset = look.id,
                                 !.yielded = 0, !.media_list = <<>>]
  /\ UNCHANGED <<gemini, processed, pending, cache, stores, backendOn, task,
                 world, run, nCalls, ghosts, hist, stopped, priceIn,
                 priceOut, textIn, textOut, hybrid>>

\* client.iter_messages(entity, offset_id=message.id, limit=max_lookback)
\* has a next message: the one below the last it yielded, while fewer than
\* limit messages were yielded
HasNext == look.yielded < look.max_lookback /\ look.offset > 1

\* one turn of the async for of _collect_from_telegram (1118-1128)
IterPrevious ==
  /\ look.pc = "walk"
  /\ HasNext
  /\ LET c == look.chat_id
         prev_msg == look.offset - 1
         k == world[<<c, prev_msg>>]
     IN  /\ cache' = [cache EXCEPT ![c] = @ \cup {prev_msg}]
         /\ IF HasText(k)
              THEN look' = [look EXCEPT
                              !.pc = "done",
                              !.fetched = Append(@, prev_msg),
                              !.result = Reverse(look.media_list)]
              ELSE look' = [look EXCEPT
                              !.offset = prev_msg,
                              !.yielded = @ + 1,
                              !.fetched = Append(@, prev_msg),
                              !.media_list = IF HasMedia(k)
                                               THEN Append(@, prev_msg)
                                               ELSE @]
  /\ UNCHANGED <<gemini, processed, pending, stores, backendOn, task, world,
                 run, nCalls, ghosts, hist, stopped, priceIn, priceOut,
                 textIn, textOut, hybrid>>

\* the iterator is exhausted: the break of line 1130 and the return of
\* collect_previous_media (1084)
IterEnd ==
  /\ look.pc = "walk"
  /\ ~HasNext
  /\ look' = [look EXCEPT !.pc = "done",
                          !.result = Reverse(look.media_list)]
  /\ UNCHANGED <<gemini, processed, pending, cache, stores, backendOn, task,
                 world, run, nCalls, ghosts, hist, stopped, priceIn,
                 priceOut, textIn, textOut, hybrid>>

\* the request behind the iterator raises FloodWaitError (1132-1138): the
\* handler sleeps e.seconds and the while loop runs its body again, that
\* is a new iter_messages call with offset_id=message.id; media_list is
\* the list assigned before the loop
FloodWait ==
  /\ look.pc = "walk"
  /\ HasNext
  /\ look.floods < MaxFloods
  /\ look' = [look EXCEPT !.offset = look.id, !.yielded = 0,
                          !.floods = @ + 1]
  /\ UNCHANGED <<gemini, processed, pending, cache, stores, backendOn, task,
                 world, run, nCalls, ghosts, hist, stopped, priceIn,
                 priceOut, textIn, textOut, hybrid>>

NextCollect ==
  \/ \E failing \in SUBSET LookIds : \E h \in Sequential : Assemble(h, failing)
  \/ CollectPrevious
  \/ IterPrevious
  \/ IterEnd
  \/ FloodWait

SpecCollect == InitCollect /\ [][NextCollect]_vars

(***************************************************************************)
(* Properties.                                                             *)
(***************************************************************************)
AllStores == {products, offline, failed}

\* handler h hands its product to the backend in this step
Submits(h) ==
  /\ backendOn
  /\ task[h].pc \in {"send", "resend"}
  /\ task'[h].pc = "idle"

\* handler h finishes the assembly of a valid product in this step
Assembles(h) ==
  /\ task[h].pc = "assemble"
  /\ task'[h].pc = "send"

HasRecord(store, uid) == \E i \in 1..Len(store) : store[i].unique_id = uid

\* C1 (as claimed): within one run the backend is invoked at most once for
\* a unique_id, whatever messages are replayed.
C1_AtMostOnceDelivery ==
  [][\A h \in Handlers :
       Submits(h) => task[h].product.unique_id \notin delivered]_vars

\* C1 (amended): within one run the backend is invoked at most once for the
\* freshly assembled product of a unique_id; every other invocation for it
\* is the re-delivery of the AI-extracted record stored in products.json.
C1_AtMostOnceFreshDelivery ==
  [][\A h \in Handlers :
       (Submits(h) /\ task[h].pc = "send")
         => task[h].product.unique_id \notin delivered]_vars

\* C1 witness: a message whose product was already submitted in this run is
\* replayed and its stored record is about to be submitted again.
C1_Witness ==
  \E h \in Handlers :
    /\ backendOn
    /\ task[h].pc = "resend"
    /\ task[h].product.unique_id \in delivered

\* C2: the unique_id is determined by, and determines, (channel, message);
\* no store holds two records with one unique_id; a write to a store either
\* replaces the record with the product's unique_id where it stands, all
\* other records staying where they are, or appends a record whose
\* unique_id was absent.
C2_UniqueRecords ==
  /\ \A k1, k2 \in Channels \X MsgIds :
       UniqueId(k1[1], k1[2]) = UniqueId(k2[1], k2[2]) => k1 = k2
  /\ \A store \in AllStores : \A i, j \in 1..Len(store) :
       /\ store[i].unique_id = UniqueId(store[i].channel_id, store[i].message_id)
       /\ store[i].unique_id = store[j].unique_id => i = j

UpsertStep(old, new) ==
  \/ new = old
  \/ /\ Len(new) = Len(old)
     /\ \E i \in 1..Len(old) :
          /\ new[i].unique_id = old[i].unique_id
          /\ \A j \in 1..Len(old) : j # i => new[j] = old[j]
  \/ /\ Len(new) = Len(old) + 1
     /\ \A j \in 1..Len(old) : new[j] = old[j]
     /\ ~HasRecord(old, new[Len(new)].unique_id)

C2_IdempotentUpsert ==
  /\ []C2_UniqueRecords
  /\ [][/\ UpsertStep(products, products')
        /\ UpsertStep(offline, offline')
        /\ UpsertStep(failed, failed')]_vars

\* C2 witness: in a second run a record of products.json was replaced by a
\* new extraction while a record written after it kept its place.
C2_Witness ==
  /\ run > 1
  /\ \E i, j \in 1..Len(products) :
       /\ i < j
       /\ products[i].unique_id \in processed
       /\ products[i].extraction_method = GEMINI
       /\ products[j].unique_id \notin processed

\* C3: a handler that is about to deliver a product (to the backend, the
\* offline store or the failed store) finds a record with the product's
\* unique_id in products.json, on the fresh path and on the stored-record
\* path.
C3_PersistedBeforeDelivery ==
  \A h \in Handlers :
    task[h].pc \in {"send", "resend"}
      => HasRecord(products, task[h].product.unique_id)

\* C3 witness: a freshly assembled product is about to be delivered.
C3_Witness ==
  \E h \in Handlers :
    /\ task[h].pc = "send"
    /\ task[h].product.unique_id = UniqueId(task[h].chat_id, task[h].id)

\* C4 (as claimed): when a text-bearing message is assembled into a
\* product, every media-only message waiting in the channel's buffer has
\* an image in that product.
C4_BufferedMediaAttached ==
  [][\A h \in Handlers :
       Assembles(h)
         => \A x \in Range(pending[task[h].chat_id]) :
              ImagesFrom(task'[h].product.images, x) > 0]_vars

\* C4 (amended), first part: the assembly of a text-bearing message empties
\* the channel's buffer, marks every buffered message processed and, when
\* it yields a product, the product has an image of every buffered message
\* whose download did not return None.
C4_Consumed ==
  \A h \in Handlers :
    task[h].pc = "assemble" /\ task'[h].pc # "assemble"
      => LET c == task[h].chat_id IN
         /\ pending'[c] = <<>>
         /\ \A x \in Range(pending[c]) :
              /\ UniqueId(c, x) \in processed'
              /\ Assembles(h)
                   => \/ ImagesFrom(task'[h].product.images, x) > 0
                      \/ <<c, x>> \in lost'

\* C4 (amended), second part: extraction, persistence and delivery start
\* only for a message with text; a message without text changes the cache
\* and the buffer alone.
C4_NoTextOnlyBuffered ==
  /\ \A h \in Handlers :
       task[h].pc = "idle" /\ task'[h].pc # "idle"
         => HasText(world'[<<task'[h].chat_id, task'[h].id>>])
  /\ (run' = run /\ \A h \in Handlers : task'[h].pc = "idle" /\ task[h].pc = "idle")
       => UNCHANGED <<stores, delivered, attached, gemini>>

\* C4 (amended), third part: a message that waits in a pending buffer has
\* no image in any product assembled in this run.
C4_WaitingInNoProduct ==
  \A c \in Channels : \A x \in Range(pending[c]) : <<c, x>> \notin attached

C4_MediaFollowsText ==
  /\ []C4_WaitingInNoProduct
  /\ [][C4_Consumed /\ C4_NoTextOnlyBuffered]_vars

\* C4 witness: a product was assembled from a caption and holds the image
\* of a media-only message that had been buffered before.
C4_Witness ==
  \E h \in Handlers :
    /\ task[h].pc = "send"
    /\ \E x \in MsgIds :
         /\ ~HasText(world[<<task[h].chat_id, x>>])
         /\ ImagesFrom(task[h].product.images, x) > 0

\* C5: in one run no message gives two images to one product and no
\* message gives images to two products.
C5_MediaAttachedOnce ==
  [][\A h \in Handlers :
       Assembles(h)
         => \A x \in MsgIds :
              /\ ImagesFrom(task'[h].product.images, x) <= 1
              /\ ImagesFrom(task'[h].product.images, x) = 1
                   => <<task[h].chat_id, x>> \notin attached]_vars

\* C6: within a run the processed set and the cache only grow and every
\* processed message is in its channel's cache; a process_message call
\* starts an extraction only for, and buffers only, a message that is not
\* in the processed set, and an assembly only follows an extraction.
C6_ProcessedInCache ==
  \A c \in Channels, m \in MsgIds :
    UniqueId(c, m) \in processed => m \in cache[c]

C6_ProcessedOnceStep ==
  /\ run' = run
       => /\ processed \subseteq processed'
          /\ \A c \in Channels : cache[c] \subseteq cache'[c]
  /\ \A h \in Handlers :
       /\ (task[h].pc = "idle" /\ task'[h].pc = "extract")
            => UniqueId(task'[h].chat_id, task'[h].id) \notin processed
       /\ (task[h].pc # "assemble" /\ task'[h].pc = "assemble")
            => task[h].pc = "extract"
       /\ task[h].pc = "idle" => task'[h].pc \in {"idle", "extract", "resend"}
  /\ \A c \in Channels :
       Len(pending'[c]) > Len(pending[c])
         => /\ run' = run
            /\ UniqueId(c, pending'[c][Len(pending'[c])]) \notin processed

C6_ProcessedOnce ==
  /\ []C6_ProcessedInCache
  /\ [][C6_ProcessedOnceStep]_vars

\* C6 witness: the only message seen so far has text, its first
\* process_message call marked it processed, and a second call for it has
\* returned with nothing started and nothing buffered.
C6_Witness ==
  /\ run = 1
  /\ nCalls = 2
  /\ AllIdle
  /\ \A c \in Channels : pending[c] = <<>>
  /\ \E k \in Channels \X MsgIds :
       /\ HasText(world[k])
       /\ UniqueId(k[1], k[2]) \in processed
       /\ ~ShortCircuits(products, UniqueId(k[1], k[2]))
       /\ \A k2 \in Channels \X MsgIds : k2 # k => world[k2] = Unseen

\* C7: every record of every store, and every product a handler is about
\* to deliver, has a non-empty name, at least one image and a current
\* price above zero; an assembly that ends without a product to deliver
\* leaves the stores and the backend alone.
C7_WellFormed(p) ==
  /\ p.name # ""
  /\ Len(p.images) >= 1
  /\ \E v \in p.current_price : v > 0

C7_StoredValid ==
  /\ \A store \in AllStores : \A i \in 1..Len(store) : C7_WellFormed(store[i])
  /\ \A h \in Handlers :
       task[h].pc \in {"send", "resend"} => C7_WellFormed(task[h].product)

C7_InvalidDiscarded ==
  /\ []C7_StoredValid
  /\ [][\A h \in Handlers :
          (task[h].pc = "assemble" /\ task'[h].pc = "idle")
            => UNCHANGED <<stores, delivered>>]_vars

\* C7 witness: the one message handed to process_message had text, was
\* extracted and assembled, and its product was discarded.
C7_Witness ==
  /\ run = 1
  /\ nCalls = 1
  /\ AllIdle
  /\ processed # {}
  /\ products = <<>> /\ offline = <<>> /\ failed = <<>>
  /\ delivered = {}

\* C8: as long as every service call of the run was answered with the daily
\* quota error, the extractor is enabled after fewer than
\* NumKeys * NumModels calls and disabled after exactly that many calls and
\* rotations; a disabled extractor is never called, and an extract call
\* made while it is disabled returns None.
C8_QuotaCount ==
  \A q \in quotaRun :
    /\ q.calls = q.rotations
    /\ gemini.enabled => q.calls < NumKeys * NumModels
    /\ ~gemini.enabled => q.calls = NumKeys * NumModels

C8_DisabledStep ==
  ~gemini.enabled
    => /\ \A h \in Handlers, reply \in Replies : ~GeminiCall(h, reply)
       /\ \A h \in Handlers :
            (task[h].pc = "extract" /\ task'[h] # task[h])
              => /\ task'[h].pc = "assemble"
                 /\ task'[h].result = None
                 /\ UNCHANGED <<gemini, quotaRun>>

C8_RotationTerminates ==
  /\ []C8_QuotaCount
  /\ [][C8_DisabledStep]_vars

\* C8 witness: NumKeys * NumModels calls, all answered with the daily quota
\* error, disabled the extractor, and a later extract call has returned
\* None without an attempt.
C8_Witness ==
  /\ ~gemini.enabled
  /\ quotaRun = Some([calls |-> NumKeys * NumModels,
                      rotations |-> NumKeys * NumModels])
  /\ nCalls >= 2
  /\ \E h \in Handlers :
       /\ task[h].pc = "assemble"
       /\ task[h].attempt = 0
       /\ task[h].result = None

\* C9: when every api key is in exhausted_keys the extractor is disabled; a
\* disabled extractor stays disabled until the run ends; a product
\* assembled while every key is exhausted is extracted by the rules and
\* tagged Manual.
C9_AllExhausted == gemini.exhausted_keys = 0..(NumKeys - 1)

C9_ExhaustedDisabled ==
  /\ C9_AllExhausted => ~gemini.enabled
  /\ \A h \in Handlers :
       (C9_AllExhausted /\ task[h].pc = "assemble") => task[h].result = None

C9_StaysDisabledStep ==
  /\ (run' = run /\ ~gemini.enabled) => ~gemini'.enabled
  /\ \A h \in Handlers :
       (C9_AllExhausted /\ Assembles(h))
         => /\ task'[h].product.extraction_method = MANUAL
            /\ task'[h].product.name =
                 ManualExtract(world[<<task[h].chat_id, task[h].id>>].text).name

C9_DisabledForRun ==
  /\ []C9_ExhaustedDisabled
  /\ [][C9_StaysDisabledStep]_vars

\* C9 witness: every key is exhausted and a product assembled since then,
\* tagged Manual, is about to be delivered.
C9_Witness ==
  /\ C9_AllExhausted
  /\ \E h \in Handlers :
       /\ task[h].pc = "send"
       /\ task[h].attempt = 0
       /\ task[h].product.extraction_method = MANUAL

\* C10: only an extract call or a new run changes the rotation state;
\* within a run exhausted_keys never shrinks and exhausted_models shrinks
\* only in a step that adds the current key to exhausted_keys; while the
\* extractor is enabled, the current (key, model) pair is not a pair that
\* was left because of a quota error.
C10_CurrentPairFresh ==
  gemini.enabled
    => /\ <<gemini.current_key_index, gemini.current_model_index>>
            \notin leftPairs
       /\ PairAvailable(gemini)
       /\ <<AfterGetters(gemini).current_key_index,
            AfterGetters(gemini).current_model_index>> \notin leftPairs

C10_MonotoneStep ==
  /\ (run' = run /\ \A h \in Handlers : task[h].pc # "extract")
       => gemini' = gemini
  /\ run' = run
       => /\ gemini.exhausted_keys \subseteq gemini'.exhausted_keys
          /\ ~(gemini.exhausted_models \subseteq gemini'.exhausted_models)
               => /\ gemini.current_key_index \notin gemini.exhausted_keys
                  /\ gemini.current_key_index \in gemini'.exhausted_keys

C10_MonotoneRotation ==
  /\ []C10_CurrentPairFresh
  /\ [][C10_MonotoneStep]_vars

\* C10 witness: a second extract call of the run starts with the rotation
\* state the first one left: a key exhausted, pairs left behind, the
\* extractor enabled.
C10_Witness ==
  /\ gemini.enabled
  /\ gemini.exhausted_keys # {}
  /\ leftPairs # {}
  /\ nCalls >= 2
  /\ \E h \in Handlers : task[h].pc = "extract" /\ task[h].attempt = 0


\* C11: an extract call always ends in the assembly of its message; the
\* product assembled is tagged Gemini AI exactly when extract returned a
\* truthy result, and otherwise carries the name and the prices of the
\* rule-based extractors and the tag Manual; an assembly ends in a product
\* to deliver or in no product, and the handler is then free for the next
\* message.
C11_FallbackStep ==
  \A h \in Handlers :
    LET text == world[<<task[h].chat_id, task[h].id>>].text IN
    /\ (task[h].pc = "extract" /\ task'[h].pc # "extract")
         => /\ task'[h].pc = "assemble"
            /\ task'[h].chat_id = task[h].chat_id /\ task'[h].id = task[h].id
    /\ (task[h].pc = "assemble" /\ task'[h] # task[h])
         => task'[h].pc \in {"send", "idle"}
    /\ Assembles(h)
         => /\ task'[h].product.extraction_method = GEMINI
                 <=> Truthy(task[h].result)
            /\ task'[h].product.extraction_method \in {GEMINI, MANUAL}
            /\ ~Truthy(task[h].result)
                 => /\ task'[h].product.name = ManualExtract(text).name
                    /\ task'[h].product.current_price =
                         ManualExtract(text).current_price
                    /\ task'[h].product.old_price =
                         ManualExtract(text).old_price
    /\ (task[h].pc = "send" /\ task'[h] # task[h]) => task'[h].pc = "idle"

C11_GracefulFallback == [][C11_FallbackStep]_vars

\* C11 witness: after an extraction that failed for an earlier message, a
\* later message went through an extract call that met quota errors while
\* the extractor stayed enabled and returned no result; its product, tagged
\* Manual, is about to be delivered.
C11_Witness ==
  /\ gemini.enabled
  /\ \E i \in 1..Len(products) : products[i].extraction_method = MANUAL
  /\ \E h \in Handlers :
       /\ task[h].pc = "send"
       /\ task[h].attempt > 0
       /\ ~Truthy(task[h].result)
       /\ task[h].product.extraction_method = MANUAL
       /\ \E i \in 1..Len(products) :
            /\ products[i].extraction_method = MANUAL
            /\ products[i].unique_id # task[h].product.unique_id

\* number of records of a store with a unique_id
CountOf(store, uid) ==
  Cardinality({i \in 1..Len(store) : store[i].unique_id = uid})

\* C12: with the backend disabled a delivery submits nothing, returns
\* False, leaves products.json and the failed store as they are and leaves
\* in the offline store exactly one record of the product's unique_id, the
\* product itself, put where the old record was or appended.
C12_OfflineStep ==
  \A h \in Handlers :
    (~backendOn /\ task[h].pc \in {"send", "resend"} /\ task'[h].pc = "idle")
      => /\ delivered' = delivered
         /\ failed' = failed
         /\ products' = products
         /\ task'[h].success = Some(FALSE)
         /\ CountOf(offline', task[h].product.unique_id) = 1
         /\ \E i \in 1..Len(offline') : offline'[i] = task[h].product
         /\ UpsertStep(offline, offline')
         /\ Len(offline') = IF HasRecord(offline, task[h].product.unique_id)
                              THEN Len(offline) ELSE Len(offline) + 1

C12_NothingSubmitted ==
  ~backendOn => delivered = {} /\ failed = <<>>

C12_OfflineDelivery ==
  /\ []C12_NothingSubmitted
  /\ [][C12_OfflineStep]_vars

\* C12 witness: with the backend disabled the one message seen was
\* delivered twice in one run, the second time from its stored record, and
\* the offline store holds one record.
C12_Witness ==
  /\ ~backendOn
  /\ run = 1
  /\ nCalls = 2
  /\ AllIdle
  /\ Len(offline) = 1
  /\ Len(products) = 1
  /\ products[1].extraction_method = GEMINI
  /\ offline[1] = products[1]
  /\ \E h \in Handlers : task[h].success = Some(FALSE)

\* C13 (as claimed): with the backend enabled, a response with a 2xx status
\* makes send_product return True and leaves the failed store unchanged;
\* any other response and an exception make it return False and put the
\* product into the failed store.
C13_Every2xxSent ==
  [][\A h \in Handlers :
       /\ \A reply \in {"200", "201", "204"} :
            (backendOn /\ SendProduct(h, reply))
              => failed' = failed /\ task'[h].success = Some(TRUE)
       /\ \A reply \in {"500", "exception"} :
            (backendOn /\ SendProduct(h, reply))
              => /\ task'[h].success = Some(FALSE)
                 /\ \E i \in 1..Len(failed') : failed'[i] = task[h].product]_vars

\* C14: process_message takes the stored-record path exactly when
\* products.json holds a record of the message's unique_id that is not
\* Manual; on that path the product to deliver is the stored record, the
\* extractor state, the processed set, the cache, the buffer and the three
\* stores are left alone, and the next step of the handler is the one
\* delivery of that record.
C14_StoredRecordStep ==
  \A h \in Handlers :
    LET uid == UniqueId(task'[h].chat_id, task'[h].id)
        stored == {i \in 1..Len(products) :
                     /\ products[i].unique_id = uid
                     /\ products[i].extraction_method = GEMINI}
    IN
    /\ (task[h].pc = "idle" /\ task'[h].pc = "resend")
         => /\ \E i \in stored : task'[h].product = products[i]
            /\ UNCHANGED <<gemini, processed, pending, cache, stores,
                           delivered, attached>>
    /\ (task[h].pc = "idle" /\ task'[h].pc = "extract") => stored = {}
    /\ (task[h].pc = "resend" /\ task'[h] # task[h])
         => /\ task'[h].pc = "idle"
            /\ UNCHANGED <<gemini, processed, pending, cache, products,
                           attached>>
            /\ backendOn => delivered' = delivered \cup {task[h].product.unique_id}
            /\ ~backendOn
                 => \E i \in 1..Len(offline') : offline'[i] = task[h].product

C14_ResendIsStored ==
  \A h \in Handlers :
    task[h].pc = "resend"
      => /\ \E i \in 1..Len(products) : products[i] = task[h].product
         /\ task[h].product.extraction_method = GEMINI
         /\ task[h].product.unique_id = UniqueId(task[h].chat_id, task[h].id)
         /\ task[h].result = None

C14_StoredRecordDelivered ==
  /\ []C14_ResendIsStored
  /\ [][C14_StoredRecordStep]_vars

\* C14 witness: in a run that has processed nothing yet, the record an
\* earlier run stored for the message, with its images, is about to be
\* delivered.
C14_Witness ==
  \E h \in Handlers :
    /\ task[h].pc = "resend"
    /\ run > 1
    /\ processed = {}
    /\ task[h].product.images # <<>>
    /\ task[h].product.extraction_method = GEMINI

\* a record of the unique_id extracted by the rules
ManualRecord(store, uid) ==
  \E i \in 1..Len(store) :
    store[i].unique_id = uid /\ store[i].extraction_method = MANUAL

\* C15: a process_message call for a message whose record in products.json
\* is Manual starts an extraction, and the assembly that follows puts its
\* product in the place of that record.
C15_ManualReprocessed ==
  [][\A h \in Handlers :
       /\ \A c \in Channels, m \in MsgIds : \A k \in KindsOf(c, m) :
            (ProcessMessage(h, c, m, k) /\ ManualRecord(products, UniqueId(c, m)))
              => task'[h].pc = "extract"
       /\ (Assembles(h) /\ ManualRecord(products, task'[h].product.unique_id))
            => /\ Len(products') = Len(products)
               /\ \E i \in 1..Len(products) :
                    /\ products[i].unique_id = task'[h].product.unique_id
                    /\ products'[i] = task'[h].product]_vars

\* C19: in every record of every store and in every product about to be
\* delivered, current_price is at most old_price when both are present.
C19_PriceOrdered ==
  LET Ordered(p) == \A a \in p.current_price, b \in p.old_price : a <= b
  IN  /\ \A store \in AllStores : \A i \in 1..Len(store) : Ordered(store[i])
      /\ \A h \in Handlers :
           task[h].pc \in {"send", "resend"} => Ordered(task[h].product)

\* positions of the in-range numeric tokens of a text
C20_InRangeNums(text) ==
  {j \in 1..Len(text) :
     text[j].kind = "num" /\ 1 <= text[j].val /\ text[j].val <= 100000}

\* the text has exactly two in-range numeric tokens, of values A < B
C20_TwoTokens(text, A, B) ==
  /\ A < B
  /\ Cardinality(C20_InRangeNums(text)) = 2
  /\ {text[j].val : j \in C20_InRangeNums(text)} = {A, B}

\* token j carries a marker: the next token that is not a line break or a
\* symbol is a currency marker, or the last such token before it is a
\* price keyword
C20_Marked(text, j) ==
  \/ \E n \in (j + 1)..Len(text) :
       /\ text[n].kind = "cur"
       /\ \A x \in (j + 1)..(n - 1) : text[x].kind \in {"nl", "sym"}
  \/ \E q \in 1..(j - 1) :
       /\ text[q].kind \in {"kw", "by"}
       /\ \A x \in (q + 1)..(j - 1) : text[x].kind \in {"nl", "sym"}

\* C20 (as claimed): for a text with exactly two in-range numeric tokens
\* A < B, extract returns current_price = A and old_price = B, in either
\* order of appearance, with or without markers.
C20_TwoTokensAnyMarker ==
  \A out \in priceOut : \A A, B \in PriceValues :
    C20_TwoTokens(priceIn, A, B)
      => out.current_price = Some(A) /\ out.old_price = Some(B)

\* C20 (amended): for a text with exactly two in-range numeric tokens
\* A < B, extract returns current_price = A and old_price = B when both
\* tokens carry a marker, in either order of appearance; when one of them
\* carries a marker it returns that token's value and no old_price; when
\* none does it returns one of the two values and no old_price.
C20_TwoMarkedTokens ==
  \A out \in priceOut : \A A, B \in PriceValues :
    C20_TwoTokens(priceIn, A, B)
      => LET marked == {priceIn[j].val : j \in
                          {x \in C20_InRangeNums(priceIn) :
                             C20_Marked(priceIn, x)}}
         IN  /\ marked = {A, B}
                  => out.current_price = Some(A) /\ out.old_price = Some(B)
             /\ Cardinality(marked) = 1
                  => out.current_price = marked /\ out.old_price = None
             /\ marked = {}
                  => /\ out.current_price \in {Some(A), Some(B)}
                     /\ out.old_price = None

\* C20 witness: the larger of two marked prices comes first in the text and
\* extract has returned the smaller as current_price and the larger as
\* old_price.
C20_Witness ==
  /\ priceOut = Some([current_price |-> Some(150), old_price |-> Some(200)])
  /\ C20_TwoTokens(priceIn, 150, 200)
  /\ \A j \in C20_InRangeNums(priceIn) : C20_Marked(priceIn, j)
  /\ \E i, j \in C20_InRangeNums(priceIn) :
       i < j /\ priceIn[i].val = 200 /\ priceIn[j].val = 150

\* C17: when a channel has been replayed a second time, from scratch and
\* with any batch size, the products and the media of each product are
\* those of the first replay.
C17_BatchSizeIrrelevant ==
  HistoryDone => \A r \in hist.reference : Outcome(products) = r

\* C16: while an execution of process_message for a channel is suspended,
\* no step changes that channel's buffer, cache or processed entries; and
\* a product has no image of a message that arrived after its caption.
C16_ChannelLinearized ==
  [][\A h \in Handlers :
       LET c == task[h].chat_id IN
       /\ (task[h].pc # "idle" /\ task'[h] = task[h] /\ ~stopped')
            => /\ pending'[c] = pending[c]
               /\ cache'[c] = cache[c]
               /\ \A m \in MsgIds :
                    UniqueId(c, m) \in processed' <=> UniqueId(c, m) \in processed
       /\ Assembles(h)
            => \A i \in 1..Len(task'[h].product.images) :
                 task'[h].product.images[i][1] <= task[h].id]_vars

\* C18: when the run is cancelled, every handler that has extracted its
\* message and is collecting the media of a product that is valid has that
\* product in products.json once the run has stopped.
C18_UpsertBeforeStop ==
  [][(stopped' /\ ~stopped)
       => \A h \in Handlers :
            LET c == task[h].chat_id
                m == task[h].id
            IN  (/\ task[h].pc = "assemble"
                 /\ IsValid(NewProduct(c, m, task[h].result,
                                       AddMedia(<<>>, c, MediaToAdd(c, m), {}))))
                  => HasRecord(products', UniqueId(c, m))]_vars

\* C21: TextExtractor.extract applied to the three fields it returned,
\* joined by line breaks, returns the same three fields.
C21_Idempotent ==
  Len(textOut) = 2 => textOut[2] = textOut[1]

\* the text of the scenario: a name line, a line of description and a line
\* with the number 150 and a currency marker
Scenario == <<Tok("w"), Tok("nl"), Tok("w"), Tok("nl"), Num(150), Tok("cur")>>

\* C22 as stated: the scenario text yields name = line 1,
\* short_description = line 2, an empty description, current_price = 150
\* and no old_price.
C22_ScenarioEmptyDescription ==
  (textIn = Scenario /\ Len(textOut) >= 1)
    => /\ textOut[1] = [name |-> <<Tok("w")>>,
                        short_description |-> <<Tok("w")>>,
                        description |-> <<>>]
       /\ priceOut = Some([current_price |-> Some(150), old_price |-> None])

\* C22 amended: the scenario text yields name = line 1, short_description =
\* line 2, description = line 3 (the price line), current_price = 150 and
\* no old_price.
C22_ScenarioPriceLineDescription ==
  (textIn = Scenario /\ Len(textOut) >= 1)
    => /\ textOut[1] = [name |-> <<Tok("w")>>,
                        short_description |-> <<Tok("w")>>,
                        description |-> <<Num(150), Tok("cur")>>]
       /\ priceOut = Some([current_price |-> Some(150), old_price |-> None])

\* C22 witness: the rule-based extractors have run on the scenario text.
C22_Witness ==
  textIn = Scenario /\ Len(textOut) >= 1 /\ priceOut # None

\* every unique_id of the store old has a record in the store new
KeepsRecords(old, new) ==
  \A i \in 1..Len(old) : HasRecord(new, old[i].unique_id)

\* C23: no step removes a unique_id from products.json,
\* offline_products.json or failed_products.json, and a step that writes a
\* product to the offline or the failed store leaves products.json as it
\* is, with the record of that product in it.
C23_NeverDeleted ==
  [][/\ KeepsRecords(products, products')
     /\ KeepsRecords(offline, offline')
     /\ KeepsRecords(failed, failed')
     /\ \A h \in Handlers :
          (/\ task[h].pc \in {"send", "resend"}
           /\ task'[h].pc = "idle"
           /\ (offline' # offline \/ failed' # failed))
            => /\ products' = products
               /\ HasRecord(products', task[h].product.unique_id)]_vars

\* C23 witness: after a restart products.json holds two records and one of
\* them is also in the failed store.
C23_Witness ==
  /\ run > 1
  /\ Len(products) >= 2
  /\ \E i \in 1..Len(failed) : HasRecord(products, failed[i].unique_id)

\* the first index after i, in cyclic order over 0..n-1, that is not in
\* exhausted
NextFree(i, exhausted, n) ==
  LET d == CHOOSE x \in 1..n :
             /\ (i + x) % n \notin exhausted
             /\ \A y \in 1..(x - 1) : (i + y) % n \in exhausted
  IN  (i + d) % n

DailyReply == [kind |-> "daily", result |-> NoResult]

\* C24: a call answered with a daily-quota error adds the model it used to
\* exhausted_models and makes the next model in cyclic order that is not
\* exhausted the current one; when no model is left it adds the key it used
\* to exhausted_keys, empties exhausted_models and makes the next key in
\* cyclic order that is not exhausted the current one; when no key is left
\* it disables the extractor.
C24_QuotaRotation ==
  [][\A h \in Handlers :
       GeminiCall(h, DailyReply)
         => LET g == AfterGetters(gemini)
                models == g.exhausted_models \cup {g.current_model_index}
                keys == g.exhausted_keys \cup {g.current_key_index}
            IN  IF models # 0..(NumModels - 1)
                  THEN /\ gemini'.exhausted_models = models
                       /\ gemini'.current_model_index =
                            NextFree(g.current_model_index, models, NumModels)
                       /\ gemini'.exhausted_keys = g.exhausted_keys
                       /\ gemini'.current_key_index = g.current_key_index
                       /\ gemini'.enabled
                ELSE IF keys # 0..(NumKeys - 1)
                  THEN /\ gemini'.exhausted_keys = keys
                       /\ gemini'.exhausted_models = {}
                       /\ gemini'.current_key_index =
                            NextFree(g.current_key_index, keys, NumKeys)
                       /\ gemini'.enabled
                ELSE /\ gemini'.exhausted_keys = keys
                     /\ gemini'.exhausted_models = {}
                     /\ ~gemini'.enabled]_vars

\* C24 witness: the first key has used up its models, the second key is
\* the current one and has used up its first model.
C24_Witness ==
  /\ gemini.enabled
  /\ gemini.exhausted_keys = {0}
  /\ gemini.current_key_index = 1
  /\ gemini.exhausted_models = {0}
  /\ gemini.current_model_index = 1

\* the fields of the rotation state
Rotation(g) ==
  <<g.current_key_index, g.current_model_index, g.exhausted_models,
    g.exhausted_keys, g.enabled>>

\* C25: a call answered with a rate-limit error that names a retry delay
\* of N seconds, N = 0 included, leaves the pair it used current, leaves
\* both exhausted sets as they are, keeps the extract call going and does
\* not count as an attempt.
C25_RateLimitKeepsPair ==
  [][\A h \in Handlers :
       \A kind \in {"rate_limit", "rate_limit_zero"} :
         GeminiCall(h, [kind |-> kind, result |-> NoResult])
           => /\ Rotation(gemini') = Rotation(AfterGetters(gemini))
              /\ task'[h].pc = "extract"
              /\ task'[h].attempt = task[h].attempt]_vars

\* C26: a call answered with a service-unavailable error makes another
\* model the current one and exhausts nothing: exhausted_models and
\* exhausted_keys are as before, the key stays and the extractor stays
\* enabled.
C26_UnavailableNotExhausted ==
  [][\A h \in Handlers :
       GeminiCall(h, [kind |-> "unavailable", result |-> NoResult])
         => LET g == AfterGetters(gemini)
            IN  /\ gemini'.exhausted_models = g.exhausted_models
                /\ gemini'.exhausted_keys = g.exhausted_keys
                /\ gemini'.current_key_index = g.current_key_index
                /\ gemini'.enabled
                /\ NumModels > 1
                     => gemini'.current_model_index # g.current_model_index]_vars

\* C27: a call that fails with an error that is not about rate limit,
\* quota or availability, or that is answered without a well-formed JSON
\* object, ends the extract call with no result and leaves the rotation
\* state as it is.
C27_FatalNoRotation ==
  [][\A h \in Handlers :
       \A kind \in {"other", "not_found", "malformed"} :
         GeminiCall(h, [kind |-> kind, result |-> NoResult])
           => /\ Rotation(gemini') = Rotation(AfterGetters(gemini))
              /\ task'[h].pc = "assemble"
              /\ task'[h].result = None]_vars

\* the rotation state g2 has left the pair that is current in g: the
\* model of g, or its key, is marked exhausted; if the extractor is still
\* enabled another pair, not exhausted, is current; if it is disabled
\* every key is exhausted
LeavesPair(g, g2) ==
  /\ \/ g.current_model_index \in g2.exhausted_models
     \/ g.current_key_index \in g2.exhausted_keys
  /\ g2.enabled
       => /\ <<g2.current_key_index, g2.current_model_index>>
               # <<g.current_key_index, g.current_model_index>>
          /\ g2.current_model_index \notin g2.exhausted_models
          /\ g2.current_key_index \notin g2.exhausted_keys
  /\ ~g2.enabled => g2.exhausted_keys = 0..(NumKeys - 1)

\* C28: a call answered with finish reason MAX_TOKENS leaves the model it
\* used for the next one that is not exhausted (the next key, or a
\* disabled extractor, when there is none) and ends the extract call with
\* no result.
C28_TruncationRotates ==
  [][\A h \in Handlers :
       GeminiCall(h, [kind |-> "max_tokens", result |-> NoResult])
         => /\ LeavesPair(AfterGetters(gemini), gemini')
            /\ task'[h].pc = "assemble"
            /\ task'[h].result = None]_vars

\* C28 witness: the first extract call of the program has ended with no
\* result and without using an attempt, and the first model is exhausted.
C28_Witness ==
  \E h \in Handlers :
    /\ nCalls = 1
    /\ task[h].pc = "assemble"
    /\ task[h].result = None
    /\ task[h].attempt = 0
    /\ gemini.enabled
    /\ gemini.exhausted_models = {0}
    /\ gemini.current_model_index = 1

\* the replies that are not a rate limit with a retry delay
CountedReplies == {r \in RotationReplies : r.kind # "rate_limit"}

\* C29: every extract call ends, given that the service answers with a
\* rate limit at most MaxRateLimitRetries times; every service call that
\* is not such a retry is made with fewer than models x keys attempts
\* used, and either ends the extract call or uses one attempt.
C29_ExtractTerminates ==
  /\ [](\A h \in Handlers : task[h].attempt <= NumModels * NumKeys)
  /\ [][\A h \in Handlers : \A reply \in CountedReplies :
          GeminiCall(h, reply)
            => /\ task[h].attempt < NumModels * NumKeys
               /\ \/ task'[h].pc # "extract"
                  \/ task'[h].attempt = task[h].attempt + 1]_vars
  /\ \A h \in Handlers :
       (task[h].pc = "extract") ~> (task[h].pc # "extract")

\* C29 witness: an extract call has rotated through every pair but the
\* last, was rate limited as often as it can be, and has ended on the last
\* pair with the extractor disabled.
C29_Witness ==
  \E h \in Handlers :
    /\ task[h].pc = "assemble"
    /\ task[h].attempt = NumModels * NumKeys - 1
    /\ task[h].retries = MaxRateLimitRetries
    /\ ~gemini.enabled

\* the answers of the backend that are not a success
FailureReplies == BackendReplies \ {"200", "201"}

\* C30: a delivery that the backend answers with an error status, or that
\* fails with a transport error, ends process_message normally: send_product
\* returns False, the run is not stopped and the in-memory state and
\* products.json are as before; and whenever no process_message is under
\* way and the run goes on, any message can be handed to process_message.
C30_FailureDoesNotBlock ==
  /\ [][\A h \in Handlers : \A reply \in FailureReplies :
          (backendOn /\ SendProduct(h, reply))
            => /\ task'[h].pc = "idle"
               /\ task'[h].success = Some(FALSE)
               /\ ~stopped'
               /\ UNCHANGED <<gemini, processed, pending, cache, products>>]_vars
  /\ []((AllIdle /\ ~stopped /\ nCalls < MaxCalls)
          => \A h \in Sequential, c \in Channels, m \in MsgIds :
               \E k \in KindsOf(c, m) : ENABLED ProcessMessage(h, c, m, k))

\* C30 witness: the delivery of one product has failed, and the product of
\* another message, with text, has since been extracted, assembled and
\* written to products.json and is about to be handed to the backend.
C30_Witness ==
  \E h \in Handlers :
    /\ backendOn
    /\ task[h].pc = "send"
    /\ HasRecord(products, task[h].product.unique_id)
    /\ ~HasRecord(failed, task[h].product.unique_id)
    /\ failed # <<>>
    /\ \A i \in 1..Len(failed) : failed[i].unique_id \in delivered

\* handler h ends the media collection of its message in this step, with
\* a valid product or without
EndsAssembly(h) == task[h].pc = "assemble" /\ task'[h].pc # "assemble"

Sources(images) == [i \in 1..Len(images) |-> images[i][1]]

\* s is t with some elements left out
RECURSIVE IsSubseq(_, _)
IsSubseq(s, t) ==
  IF s = <<>> THEN TRUE
  ELSE IF t = <<>> THEN FALSE
  ELSE IF Head(s) = Head(t) THEN IsSubseq(Tail(s), Tail(t))
  ELSE IsSubseq(s, Tail(t))

\* the older messages a lookback from message m of channel c would add:
\* cached, with media, without text, not yet processed and not buffered
Uncollected(c, m) ==
  {x \in 1..(m - 1) :
     /\ x \in cache[c]
     /\ HasMedia(world[<<c, x>>])
     /\ ~HasText(world[<<c, x>>])
     /\ UniqueId(c, x) \notin processed
     /\ x \notin Range(pending[c])}

\* C32: the images of an assembled product come first from the buffered
\* messages of the channel, in the order of the buffer, then from older
\* messages found by the lookback that were neither processed nor buffered,
\* in ascending order of their ids, and last from the message itself; every
\* message consumed in this way is marked processed, and it has an image in
\* the product unless its download returned nothing.
C32_ImageOrder ==
  [][\A h \in Handlers :
       Assembles(h)
         => LET c == task[h].chat_id
                m == task[h].id
                src == Sources(task'[h].product.images)
            IN  /\ \E nb \in 0..Len(src), np \in 0..Len(src) :
                     /\ nb + np <= Len(src)
                     /\ IsSubseq(SubSeq(src, 1, nb), pending[c])
                     /\ \A i \in (nb + 1)..(nb + np) :
                          /\ src[i] \in Uncollected(c, m)
                          /\ i > nb + 1 => src[i - 1] < src[i]
                     /\ \A i \in (nb + np + 1)..Len(src) :
                          /\ src[i] = m
                          /\ i = Len(src)
                /\ \A x \in Range(pending[c]) \cup
                            (Range(CollectPreviousMedia(c, m)) \cap
                               Uncollected(c, m)) \cup
                            {y \in {m} : HasMedia(world[<<c, m>>])} :
                     /\ UniqueId(c, x) \in processed'
                     /\ x \in Range(src) \/ <<c, x>> \in lost']_vars

\* C32 witness: a product was assembled for message 4 with four images: the
\* first from the buffered message 3, the next two from the messages 1 and 2
\* that the lookback found, the last from message 4 itself.
C32_Witness ==
  \E h \in Handlers :
    /\ task[h].pc = "send"
    /\ task[h].id = MaxLookId
    /\ Sources(task[h].product.images) = <<3, 1, 2, 4>>
    /\ \A x \in 1..4 : UniqueId(task[h].chat_id, x) \in processed


\* the ids a lookback from message n over max_lookback messages looks up
LookWindow(n, max_lookback) == {x \in 1..(n - 1) : x >= n - max_lookback}

\* the cached messages of the window that bear text
TextAbove(c, W) == {x \in W : x \in cache[c] /\ HasText(world[<<c, x>>])}

\* the cached messages of the window above the newest one that bears text
Examined(c, W) ==
  {x \in W : x \in cache[c] /\ \A t \in TextAbove(c, W) : t < x}

\* C33: collect_previous_media for message n, answered from the cache,
\* looks up the ids n-1 down to n-max_lookback and none below 1, stops at
\* the first cached message with non-blank text, and returns the messages it
\* looked at that have media, in ascending order of their ids.
C33_LookbackWalk ==
  (look.pc = "done" /\ look.keyed)
    => LET c == look.chat_id
           W == LookWindow(look.id, look.max_lookback)
           r == look.result
       IN  /\ Range(r) = {x \in Examined(c, W) : HasMedia(world[<<c, x>>])}
           /\ \A i \in 1..(Len(r) - 1) : r[i] < r[i + 1]

\* C33 witness: a lookback over two messages from message 4 returned the
\* messages 2 and 3 and left out message 1, which is cached and has media
\* and no text.
C33_Witness ==
  /\ look.pc = "done"
  /\ look.keyed
  /\ look.max_lookback = 2
  /\ look.result = <<2, 3>>
  /\ 1 \in cache[look.chat_id]
  /\ world[<<look.chat_id, 1>>] = [text |-> "none", media |-> "photo"]


\* C34 (as claimed): when collect_previous_media has returned for a channel
\* whose cache held other messages, every id of the window above the newest
\* cached message with text is in the cache: the ones that were missing
\* have been fetched and stored.
C34_UncachedFetched ==
  (look.pc = "done" /\ look.keyed)
    => LET c == look.chat_id
           W == LookWindow(look.id, look.max_lookback)
       IN  \A x \in W : (\A t \in TextAbove(c, W) : t < x) => x \in cache[c]


LineStarts(text) ==
  {i \in 1..Len(text) :
     /\ text[i].kind # "nl"
     /\ i = 1 \/ text[i - 1].kind = "nl"}

\* the j-th non-blank line of a text
LineAt(text, j) ==
  LET start == CHOOSE i \in LineStarts(text) :
                 Cardinality({s \in LineStarts(text) : s <= i}) = j
      stop == CHOOSE e \in start..Len(text) :
                /\ \A i \in start..e : text[i].kind # "nl"
                /\ e = Len(text) \/ text[e + 1].kind = "nl"
  IN  SubSeq(text, start, stop)

Breaks(text) == {i \in 1..Len(text) : text[i].kind = "nl"}

\* C36: for a text with k non-blank lines TextExtractor.extract returns
\* three empty fields when k = 0; else the name is line 1 without the
\* product-name marker, the short description is line 2 (empty when k = 1)
\* and the description is the lines 3..k, one line break between two of
\* them (empty when k <= 2); blank lines contribute nothing.
C36_LinesToFields ==
  Len(textOut) >= 1
    => LET k == Cardinality(LineStarts(textIn))
           out == textOut[1]
           d == out.description
       IN  /\ out.name =
                IF k = 0 THEN <<>>
                ELSE SelectSeq(LineAt(textIn, 1), LAMBDA t : t.kind # "mk")
           /\ out.short_description =
                IF k <= 1 THEN <<>> ELSE LineAt(textIn, 2)
           /\ Cardinality(LineStarts(d)) = IF k <= 2 THEN 0 ELSE k - 2
           /\ Cardinality(Breaks(d)) = IF k <= 2 THEN 0 ELSE k - 3
           /\ \A j \in 1..(k - 2) : LineAt(d, j) = LineAt(textIn, j + 2)

\* C36 witness: a text of four different non-blank lines was extracted: the
\* name is the first, the short description the second, and the
\* description is the third and the fourth with a line break between them.
C36_Witness ==
  /\ textIn = <<Tok("w"), Tok("nl"), Tok("cur"), Tok("nl"), Tok("mk"),
                Tok("nl"), Num(150)>>
  /\ Len(textOut) >= 1
  /\ textOut[1].name = <<Tok("w")>>
  /\ textOut[1].short_description = <<Tok("cur")>>
  /\ textOut[1].description = <<Tok("mk"), Tok("nl"), Num(150)>>


\* C37: whenever extract calls the API, the extractor is enabled and the
\* (key, model) pair the getters hand to the call is current, has its key
\* outside exhausted_keys and its model outside exhausted_models, and is no
\* pair that was left earlier in the run after a quota reply.
C37_CalledPairAvailable ==
  [][\A h \in Handlers, reply \in RotationReplies :
       GeminiCall(h, reply)
         => LET g0 == AfterGetters(gemini) IN
            /\ gemini.enabled
            /\ g0.enabled
            /\ GetCurrentModel(gemini).val = Some(g0.current_model_index)
            /\ GetCurrentApiKey(g0).val = Some(g0.current_key_index)
            /\ g0.current_key_index \notin g0.exhausted_keys
            /\ g0.current_model_index \notin g0.exhausted_models
            /\ <<g0.current_key_index, g0.current_model_index>>
                 \notin leftPairs]_vars

\* C37 witness: an extract call got a result from the API after an earlier
\* pair of the run had answered with a quota error and a key had been
\* given up.
C37_Witness ==
  \E h \in Handlers :
    /\ task[h].pc = "assemble"
    /\ task[h].result # None
    /\ task[h].attempt >= 1
    /\ gemini.exhausted_keys # {}
    /\ Cardinality(leftPairs) >= 2


\* handler h starts the extraction for a message in this step
StartsExtraction(h) == task[h].pc = "idle" /\ task'[h].pc = "extract"

\* handler h is extracting or assembling for message m of channel c
WorksOn(h, c, m) ==
  /\ task[h].pc \in {"extract", "assemble"}
  /\ task[h].chat_id = c
  /\ task[h].id = m

\* C38: however the process_message executions interleave, and however
\* often the event of a message is delivered, the extraction for a message
\* with text starts only when its unique_id is not in processed_messages
\* and no execution is working on it, and the same step puts the unique_id
\* into processed_messages, which loses no element during the run; an
\* assembly is always the continuation of the extraction of the same
\* execution.  So extraction and assembly happen at most once per message
\* and run.
C38_ExtractionStep ==
  /\ \A h \in Handlers :
       StartsExtraction(h)
         => LET c == task'[h].chat_id
                m == task'[h].id
            IN  /\ UniqueId(c, m) \notin processed
                /\ UniqueId(c, m) \in processed'
                /\ \A h2 \in Handlers : ~WorksOn(h2, c, m)
  /\ \A h \in Handlers :
       (task[h].pc # "assemble" /\ task'[h].pc = "assemble")
         => /\ task[h].pc = "extract"
            /\ task'[h].chat_id = task[h].chat_id
            /\ task'[h].id = task[h].id
  /\ run' = run => processed \subseteq processed'

C38_ExtractionOnce == [][C38_ExtractionStep]_vars

\* C38 witness: one message has arrived and its event was handled twice:
\* one execution is in the extraction, the other has returned.
C38_Witness ==
  /\ nCalls >= 2
  /\ Cardinality({k \in DOMAIN world : world[k] # Unseen}) = 1
  /\ Cardinality({h \in Handlers : task[h].pc = "extract"}) = 1
  /\ Cardinality({h \in Handlers : task[h].pc = "idle"}) = 1


\* every scrape_channel_history call of _run_hybrid_mode has returned
HistoryFinished == hybrid.channels = <<>> /\ NoReplay

\* C39: in hybrid mode the handler of events.NewMessage is registered only
\* when scrape_channel_history has returned for every channel of CHANNELS,
\* and process_message runs for a live event only then; until then every
\* process_message execution belongs to the replay.
C39_HistoryBeforeLive ==
  /\ [](hybrid.registered => HistoryFinished)
  /\ [][\A h \in Handlers, c \in Channels, k \in MsgKinds :
          HandleEvent(h, c, k) => HistoryFinished /\ hybrid.registered]_vars
  /\ [][\A h \in Handlers :
          (~hybrid.registered /\ task[h].pc = "idle" /\ task'[h].pc # "idle")
            => /\ hist.queue # <<>>
               /\ task'[h].chat_id = hist.chat_id
               /\ task'[h].id = Head(hist.queue)]_vars

\* C39 witness: both channels were replayed, the first with its one message
\* and the second with two, and a handler is now processing the message the
\* first channel posted after the switch to live monitoring.
C39_Witness ==
  /\ hybrid.registered
  /\ nCalls = 4
  /\ hybrid.posted = [c \in Channels |-> MaxMsgId]
  /\ cache[2] = {1, 2}
  /\ \E h \in Handlers :
       /\ task[h].pc = "extract"
       /\ task[h].chat_id = 1
       /\ task[h].id = 2


\* handler h goes through, or ends, the re-delivery of a stored record
Redelivers(h) ==
  \/ task[h].pc = "idle" /\ task'[h].pc = "resend"
  \/ task[h].pc = "resend" /\ task'[h] # task[h]

\* C40: a process_message execution that finds a stored AI record of its
\* message changes, from its first step to its return, nothing but
\* offline_products.json, failed_products.json, the set of deliveries and
\* its own result: processed_messages, the cache, each channel's buffer and
\* products.json are as before, and the unique_id of the message is not
\* added to processed_messages.
C40_ShortCircuitFrame ==
  [][\A h \in Handlers :
       Redelivers(h)
         => /\ processed' = processed
            /\ cache' = cache
            /\ \A c \in Channels : pending'[c] = pending[c]
            /\ products' = products
            /\ gemini' = gemini
            /\ attached' = attached
            /\ lost' = lost
            /\ task'[h].pc = "idle"
                 => /\ task'[h].success # None
                    /\ Len(offline') + Len(failed') >= Len(offline) + Len(failed)]_vars

\* C40 witness: in a second run the media message of a channel was buffered,
\* the stored AI record of the text message after it was delivered again,
\* and the execution has returned: the media message is still buffered and
\* the text message is not in processed_messages.
C40_Witness ==
  \E c \in Channels, m \in MsgIds :
    /\ run = 2
    /\ AllIdle
    /\ m > 1
    /\ pending[c] = <<m - 1>>
    /\ UniqueId(c, m) \notin processed
    /\ UniqueId(c, m) \in delivered
    /\ \E i \in 1..Len(products) :
         /\ products[i].unique_id = UniqueId(c, m)
         /\ products[i].extraction_method = GEMINI

=============================================================================
